---------------------------- MODULE Spec2Model ----------------------------
(***************************************************************************)
(* Move-quality analysis pipeline of the chess analytics service:          *)
(*   - MistakeAnalysisService (app/services/mistake_analysis_service.py):  *)
(*     move sampler, game selection, per-game analysis, aggregation and    *)
(*     the engine life cycle;                                              *)
(*   - task_manager (app/utils/task_manager.py): the in-memory task store; *)
(*   - run_mistake_analysis_background (app/routes/api.py): the worker.    *)
(*                                                                         *)
(* The module holds one group of variables per component and one           *)
(* specification per component; a specification leaves the variables of    *)
(* the other components at their idle values.                              *)
(***************************************************************************)
EXTENDS Integers, Sequences, FiniteSets, TLC

(***************************************************************************)
(* Bounds of the model                                                     *)
(***************************************************************************)
\* largest total_player_moves handed to the sampler
MaxPlayerMoves == 60

\* largest len(games_data) handed to the game selection
MaxTotalGames == 60

\* largest len(games_data) of a modelled aggregation run
MaxRunGames == 2

\* largest number of half-moves in the mainline of an analysed game
MaxPlies == 44

\* largest number of positions one service instance evaluates
MaxEvaluations == 3

\* largest total_items of a task whose progress reports are checked
MaxTotalItems == 50

\* largest current of a checked progress report
MaxReported == 30

\* task ids handed out to requests
NumTasks == 2

\* largest total_items of a task
MaxItems == 2

\* largest total_items of a task run by a background worker
MaxWorkerItems == 1

\* the clock advances by TickSeconds up to MaxClock seconds
TickSeconds == 1800
MaxClock == 5400

(***************************************************************************)
(* Program constants                                                       *)
(***************************************************************************)
EARLY_GAME_END == 7
MIDDLE_GAME_END == 20
SKIP_EVAL_THRESHOLD == 600
MOVES_PER_STAGE == 5
moves_per_game == 15
max_analysis_games == 10
INACCURACY_THRESHOLD == 50
MISTAKE_THRESHOLD == 100
BLUNDER_THRESHOLD == 200
SIGNIFICANCE_FLOOR == 300
TASK_CLEANUP_TTL == 3600

NoneVal == "None"

Min(a, b) == IF a <= b THEN a ELSE b

\* range(lo, hi) of Python: lo, ..., hi-1
Range(lo, hi) == lo .. (hi - 1)

\* sorted(S)[j] for a set S of integers, 0-based
SortedNth(S, j) == CHOOSE x \in S : Cardinality({y \in S : y < x}) = j

(***************************************************************************)
(* Values shared by the per-game analysis and the aggregation.  An         *)
(* optional record (a Python dict or None) is a sequence of length 0 or 1. *)
(***************************************************************************)
None == <<>>
Some(x) == <<x>>

Stages == {"early", "middle", "endgame"}

\* _classify_mistake: 'blunder', 'mistake', 'inaccuracy' or None
ClassifyMistakeStrict(cp_loss) ==
  IF cp_loss > BLUNDER_THRESHOLD THEN "blunder"
  ELSE IF cp_loss > MISTAKE_THRESHOLD THEN "mistake"
  ELSE IF cp_loss > INACCURACY_THRESHOLD THEN "inaccuracy"
  ELSE NoneVal

ClassifyMistake(cp_loss) ==
  IF cp_loss >= BLUNDER_THRESHOLD THEN "blunder"
  ELSE IF cp_loss >= MISTAKE_THRESHOLD THEN "mistake"
  ELSE IF cp_loss >= INACCURACY_THRESHOLD THEN "inaccuracy"
  ELSE NoneVal

\* one stage of the dictionary analyze_game_mistakes starts from (lines 262-300)
EmptyStageResult ==
  [total_moves |-> 0, inaccuracies |-> 0, mistakes |-> 0, blunders |-> 0,
   missed_opps |-> 0, cp_losses |-> <<>>, worst_mistake |-> None,
   brilliant_moves |-> 0, neutral_moves |-> 0, mistake_moves |-> 0]

EmptyGameResult == [st \in Stages |-> EmptyStageResult]

\* one stage of the dictionary aggregate_mistake_analysis starts from
\* (lines 441-493) and of _empty_aggregation (lines 705-726).  The averages
\* are kept as exact fractions: avg_cp_loss = cp_sum / cp_count and
\* avg_*_per_game = *_moves / per_game_den (0 / 0 standing for the initial 0).
EmptyAggStage ==
  [total_moves |-> 0, inaccuracies |-> 0, mistakes |-> 0, blunders |-> 0,
   missed_opps |-> 0, cp_losses |-> <<>>, worst_game |-> None,
   critical_mistake_game |-> None,
   brilliant_moves |-> 0, neutral_moves |-> 0, mistake_moves |-> 0,
   per_game_den |-> 0]

\* _empty_aggregation
EmptyAggregation ==
  [stages |-> [st \in Stages |-> EmptyAggStage],
   sample_info |-> [total_games |-> 0, analyzed_games |-> 0]]

\* the dictionary of lines 441-499 after lines 505-516
InitialAggregation(total, selected) ==
  [stages |-> [st \in Stages |-> EmptyAggStage],
   sample_info |-> [total_games |-> total, analyzed_games |-> Len(selected)]]

VARIABLES
  \* ---- _select_moves_to_analyze call
  total_player_moves,   \* the argument
  moves_to_analyze,     \* the returned set
  sampler_pc,           \* "call" before the call, "done" after it
  \* ---- game selection of aggregate_mistake_analysis
  total_games,          \* len(games_data); games are named by their index
  games_to_analyze,     \* the selected games, a sequence of indices
  analyzed_games,       \* sample_info.analyzed_games
  selection_pc,         \* "call" before the selection, "done" after it
  \* ---- task_manager
  background_tasks,     \* _background_tasks: task id -> live record
  task_results,         \* _task_results: task id -> terminal record
  now,                  \* datetime.now(), in seconds
  \* ---- one run of run_mistake_analysis_background / aggregate_mistake_analysis
  run_pc,               \* the worker's position
  enabled,              \* self.enabled
  engine,               \* self.engine: None or Some("engine")
  engine_proc,          \* the Stockfish process: "none", "running", "stopped", "quit_error"
  username,             \* the username argument
  games_seen,           \* the games the loop has taken from games_to_analyze, in order
  results_seen,         \* what analyze_game_mistakes returned for them (None: not called)
  aggregated,           \* the aggregated dictionary
  run_exc,              \* the exception that left aggregate_mistake_analysis, or None
  swallowed_exc,        \* the exception caught and logged at lines 662-663, or None
  games_replayed,       \* calls of analyze_game_mistakes
  oracle_queries,       \* calls of _evaluate_position
  callback_calls,       \* calls of progress_callback
  terminal_calls,       \* the worker's calls of complete_task / fail_task, in order
  \* ---- one call of analyze_game_mistakes
  game_pc,              \* "call", "replay" (the second pass) or "returned"
  pgn_plies,            \* the half-moves of game.mainline_moves()
  first_turn,           \* board.turn of game.board(), the side that moves first
  analysed_color,       \* the player_color argument
  oracle_profile,       \* how _evaluate_position answers during this call
  ply,                  \* ply of the second pass
  player_move_index,    \* player_move_index of the second pass
  mistakes,             \* the dictionary the call returns
  game_exit,            \* the return statement taken
  \* ---- threads around the task manager
  lock,                 \* _lock: "free" or "held"
  worker_pc,            \* task id -> position of its worker thread
  worker_idx,           \* task id -> the last idx + 1 its worker reported
  last_poll,            \* what the last get_task_status call saw and returned
  swept,                \* the task ids cleanup_old_tasks has removed
  \* ---- more of one run of aggregate_mistake_analysis
  callback_args,        \* the arguments of the calls of progress_callback, in order
  first_run,            \* an earlier run on the same service instance: its input and result
  \* ---- calls of _evaluate_position on one service instance
  oracle_pc,            \* "call", "cache_answered" or "returned"
  use_lichess_cloud,    \* self.use_lichess_cloud
  lichess_service,      \* self.lichess_service: None or Some("lichess")
  engine_nodes,         \* self.engine_nodes
  stats,                \* lichess_service.stats
  oracle_trace,         \* the queries of the current call and their answers, in order
  oracle_result,        \* what the last call returned: None or Some(centipawns)
  evaluations,          \* calls of _evaluate_position so far
  \* ---- one call of a task_manager function on some store
  api_call              \* None, or the call made: its arguments, the maps before it, its result

samplerVars == <<total_player_moves, moves_to_analyze, sampler_pc>>
selectionVars == <<total_games, games_to_analyze, analyzed_games, selection_pc>>

taskVars == <<background_tasks, task_results, now>>
runVars == <<run_pc, enabled, engine, engine_proc, username, games_seen,
             results_seen, aggregated, run_exc, swallowed_exc, games_replayed,
             oracle_queries, callback_calls, terminal_calls, callback_args, first_run>>

gameVars == <<game_pc, pgn_plies, first_turn, analysed_color, oracle_profile, ply,
              player_move_index, mistakes, game_exit>>
threadVars == <<lock, worker_pc, worker_idx, last_poll, swept>>
oracleVars == <<oracle_pc, use_lichess_cloud, lichess_service, engine_nodes, stats,
                oracle_trace, oracle_result, evaluations>>

vars == <<samplerVars, selectionVars, taskVars, runVars, gameVars, threadVars, oracleVars,
          api_call>>

SamplerIdle == total_player_moves = 0 /\ moves_to_analyze = {} /\ sampler_pc = "idle"
SelectionIdle ==
  total_games = 0 /\ games_to_analyze = <<>> /\ analyzed_games = 0 /\ selection_pc = "idle"

TasksIdle == background_tasks = <<>> /\ task_results = <<>> /\ now = 0

ThreadsIdle ==
  lock = "free" /\ worker_pc = <<>> /\ worker_idx = <<>> /\ last_poll = None /\ swept = {}

GameIdle ==
  /\ game_pc = "idle" /\ pgn_plies = 0 /\ first_turn = "white" /\ analysed_color = "white"
  /\ oracle_profile = "unknown" /\ ply = 0 /\ player_move_index = 0
  /\ mistakes = EmptyGameResult /\ game_exit = "none"

RunIdle ==
  /\ run_pc = "idle" /\ enabled = TRUE /\ engine = None /\ engine_proc = "none"
  /\ username = "Player" /\ games_seen = <<>> /\ results_seen = <<>>
  /\ aggregated = EmptyAggregation /\ run_exc = None /\ swallowed_exc = None
  /\ games_replayed = 0 /\ oracle_queries = 0 /\ callback_calls = 0
  /\ terminal_calls = <<>> /\ callback_args = <<>> /\ first_run = None

\* LichessEvaluationService.__init__, lines 26-31
EmptyStats == [api_calls |-> 0, hits |-> 0, misses |-> 0, errors |-> 0]

OracleIdle ==
  /\ oracle_pc = "idle" /\ use_lichess_cloud = TRUE /\ lichess_service = None
  /\ engine_nodes = 0 /\ stats = EmptyStats /\ oracle_trace = <<>>
  /\ oracle_result = None /\ evaluations = 0

CallIdle == api_call = None

(***************************************************************************)
(* MoveSampler: MistakeAnalysisService._select_moves_to_analyze            *)
(*                                                                         *)
(* step = middle_range / middle_moves is a float and int(i * step)         *)
(* truncates; for the divisors that occur here (at most MOVES_PER_STAGE    *)
(* for the middle third) int(i * (a / b)) = (i * a) \div b, which is what  *)
(* the operators compute.                                                  *)
(***************************************************************************)
EarlySelected(n) ==
  LET early_end == n \div 3
      early_moves == Min(MOVES_PER_STAGE, early_end)
  IN Range(0, early_moves)

EndgameSelectedOffByOne(n) ==
  LET middle_end == (2 * n) \div 3
      endgame_moves == Min(MOVES_PER_STAGE, n - middle_end)
  IN Range(n - endgame_moves, n + 1)

EndgameSelected(n) ==
  LET middle_end == (2 * n) \div 3
      endgame_moves == Min(MOVES_PER_STAGE, n - middle_end)
  IN Range(n - endgame_moves, n)

\* the middle sample taken from index 0 instead of from early_end
MiddleSelectedFromStart(n) ==
  LET early_end == n \div 3
      middle_end == (2 * n) \div 3
      middle_range == middle_end - early_end
      middle_moves == Min(MOVES_PER_STAGE, middle_range)
  IN IF middle_moves > 0 /\ middle_range > 0
       THEN {(i * middle_range) \div middle_moves : i \in Range(0, middle_moves)}
       ELSE {}

MiddleSelected(n) ==
  LET early_end == n \div 3
      middle_end == (2 * n) \div 3
      middle_range == middle_end - early_end
      middle_moves == Min(MOVES_PER_STAGE, middle_range)
  IN IF middle_moves > 0 /\ middle_range > 0
       THEN {early_end + ((i * middle_range) \div middle_moves) : i \in Range(0, middle_moves)}
       ELSE {}

Redistribute(n, selected) ==
  IF Cardinality(selected) < moves_per_game
    THEN LET remaining_slots == moves_per_game - Cardinality(selected)
             unselected == Range(0, n) \ selected
             k == Min(remaining_slots, Cardinality(unselected))
         IN IF unselected # {}
              THEN selected \cup
                   {SortedNth(unselected, (i * Cardinality(unselected)) \div k) : i \in Range(0, k)}
              ELSE selected
    ELSE selected

\* the sampler without its cap: every move of the player is selected
SelectEveryMove(n) == Range(0, n)

SelectMovesToAnalyze(n) ==
  IF n <= moves_per_game
    THEN Range(0, n)
    ELSE Redistribute(n, EarlySelected(n) \cup MiddleSelected(n) \cup EndgameSelected(n))

SamplerInit ==
  /\ total_player_moves \in 0 .. MaxPlayerMoves
  /\ moves_to_analyze = {}
  /\ sampler_pc = "call"
  /\ SelectionIdle /\ TasksIdle /\ RunIdle /\ GameIdle /\ ThreadsIdle
  /\ OracleIdle /\ CallIdle

CallSelectMoves ==
  /\ sampler_pc = "call"
  /\ moves_to_analyze' = SelectMovesToAnalyze(total_player_moves)
  /\ sampler_pc' = "done"
  /\ UNCHANGED <<total_player_moves, selectionVars, taskVars, runVars, gameVars,
                 threadVars, oracleVars, api_call>>

SamplerNext == CallSelectMoves

SpecSampler == SamplerInit /\ [][SamplerNext]_vars

AllGames(total) == [k \in 1 .. total |-> k - 1]

GameIndexIntDiv(i, total, max_games) == i * (total \div max_games)

GameIndex(i, total, max_games) == (i * total) \div max_games

SelectGamesForAnalysis(total, max_games) ==
  IF total = 0
    THEN <<>>
    ELSE IF total <= max_games
      THEN AllGames(total)
      ELSE LET candidates == [k \in 1 .. max_games |-> GameIndex(k - 1, total, max_games)]
               InList(index) == index < total
           IN SelectSeq(candidates, InList)

GamesToAnalyze(total) ==
  IF total <= max_analysis_games
    THEN AllGames(total)
    ELSE SelectGamesForAnalysis(total, max_analysis_games)

SelectionInit ==
  /\ total_games \in 0 .. MaxTotalGames
  /\ games_to_analyze = <<>>
  /\ analyzed_games = 0
  /\ selection_pc = "call"
  /\ SamplerIdle /\ TasksIdle /\ RunIdle /\ GameIdle /\ ThreadsIdle
  /\ OracleIdle /\ CallIdle

\* lines 505-512; sample_percentage (a rounded float) is not modelled
SelectGames ==
  /\ selection_pc = "call"
  /\ games_to_analyze' = GamesToAnalyze(total_games)
  /\ analyzed_games' = Len(games_to_analyze')
  /\ selection_pc' = "done"
  /\ UNCHANGED <<total_games, samplerVars, taskVars, runVars, gameVars, threadVars,
                 oracleVars, api_call>>

SelectionNext == SelectGames

SpecSelection == SelectionInit /\ [][SelectionNext]_vars

Colors == {"white", "black"}

OtherColor(color) == IF color = "white" THEN "black" ELSE "white"

\* board.turn before the p-th move of the mainline (p = 1, 2, ...)
TurnAt(first, p) == IF p % 2 = 1 THEN first ELSE OtherColor(first)

\* _get_stage
GetStage(move_number) ==
  IF move_number <= EARLY_GAME_END THEN "early"
  ELSE IF move_number <= MIDDLE_GAME_END THEN "middle"
  ELSE "endgame"

Abs(x) == IF x < 0 THEN 0 - x ELSE x

\* the first pass, lines 315-321
CountPlayerMoves(plies, first, color) ==
  Cardinality({p \in 1 .. plies : TurnAt(first, p) = color})

OracleProfiles ==
  {"unknown", "steady", "decided", "blundering", "mixed", "edges", "boundaries"}

\* the two answers of _evaluate_position for the player's i-th move: before
\* the move (line 353) and after it, from the opponent's side (line 365)
OracleAnswers(profile, i) ==
  CASE profile = "unknown" -> [before |-> None, after |-> None]
    [] profile = "steady" -> [before |-> Some(20), after |-> Some(-20)]
    [] profile = "decided" ->
         [before |-> Some(IF i % 2 = 0 THEN 700 ELSE -700), after |-> Some(0)]
    [] profile = "blundering" ->
         [before |-> Some(0), after |-> Some(60 + 100 * (i % 3))]
    [] profile = "mixed" ->
         CASE i % 5 = 0 -> [before |-> None, after |-> Some(0)]
           [] i % 5 = 1 -> [before |-> Some(0), after |-> None]
           [] i % 5 = 2 -> [before |-> Some(650), after |-> Some(-650)]
           [] i % 5 = 3 -> [before |-> Some(0), after |-> Some(-150)]
           [] OTHER -> [before |-> Some(0), after |-> Some(49)]
    [] profile = "boundaries" ->
         CASE i % 8 = 0 -> [before |-> Some(30), after |-> Some(19)]
           [] i % 8 = 1 -> [before |-> Some(30), after |-> Some(20)]
           [] i % 8 = 2 -> [before |-> Some(-40), after |-> Some(139)]
           [] i % 8 = 3 -> [before |-> Some(-40), after |-> Some(140)]
           [] i % 8 = 4 -> [before |-> Some(250), after |-> Some(-51)]
           [] i % 8 = 5 -> [before |-> Some(250), after |-> Some(-50)]
           [] i % 8 = 6 -> [before |-> Some(-10), after |-> Some(-89)]
           [] OTHER -> [before |-> Some(-10), after |-> Some(-90)]
    [] OTHER ->
         CASE i % 4 = 0 -> [before |-> Some(600), after |-> Some(600)]
           [] i % 4 = 1 -> [before |-> Some(-601), after |-> Some(601)]
           [] i % 4 = 2 -> [before |-> Some(0), after |-> Some(-100)]
           [] OTHER -> [before |-> Some(0), after |-> Some(50)]

\* line 356
IsDecided(current_eval) ==
  current_eval # None /\ Abs(current_eval[1]) > SKIP_EVAL_THRESHOLD

\* line 346
RecordPlayerMove(stage_data) == [stage_data EXCEPT !.total_moves = @ + 1]

SkippedMoveUncounted(stage_data) == stage_data

\* a skipped move charged as a neutral move
SkippedMoveCountedNeutral(stage_data) ==
  [RecordPlayerMove(stage_data) EXCEPT !.neutral_moves = @ + 1]

\* lines 346-359: what a move skipped by SKIP_EVAL_THRESHOLD leaves in its stage
SkippedMove(stage_data) == RecordPlayerMove(stage_data)

\* lines 370-402: both evaluations are known integers; new_eval is the
\* evaluation after the move from the player's side
RecordKnownEvaluation(stage_data, current_eval, new_eval, move_number) ==
  LET cp_change == new_eval - current_eval
      cp_loss == current_eval - new_eval
      mistake_type == ClassifyMistake(cp_loss)
  IN IF cp_change >= 100
       THEN [stage_data EXCEPT !.brilliant_moves = @ + 1]
       ELSE IF cp_loss >= 50
         THEN [stage_data EXCEPT
                 !.mistake_moves = @ + 1,
                 !.inaccuracies = IF mistake_type = "inaccuracy" THEN @ + 1 ELSE @,
                 !.mistakes = IF mistake_type = "mistake" THEN @ + 1 ELSE @,
                 !.blunders = IF mistake_type = "blunder" THEN @ + 1 ELSE @,
                 !.cp_losses = Append(@, cp_loss),
                 !.worst_mistake =
                    IF @ = None \/ cp_loss > @[1].cp_loss
                      THEN Some([move_number |-> move_number, cp_loss |-> cp_loss,
                                 type |-> IF mistake_type = NoneVal
                                            THEN "mistake" ELSE mistake_type])
                      ELSE @]
         ELSE [stage_data EXCEPT !.neutral_moves = @ + 1]

RecordEvaluationUnknownAsZero(stage_data, current_eval, new_eval_opponent, move_number) ==
  RecordKnownEvaluation(stage_data,
                        IF current_eval = None THEN 0 ELSE current_eval[1],
                        IF new_eval_opponent = None THEN 0 ELSE 0 - new_eval_opponent[1],
                        move_number)

\* lines 366-402; new_eval_opponent is negated at line 366, and line 369
\* leaves the stage alone when either evaluation is None
RecordEvaluation(stage_data, current_eval, new_eval_opponent, move_number) ==
  IF current_eval = None \/ new_eval_opponent = None
    THEN stage_data
    ELSE RecordKnownEvaluation(stage_data, current_eval[1], 0 - new_eval_opponent[1],
                               move_number)

\* what a call of analyze_game_mistakes leaves alone
gameFrame == <<selectionVars, taskVars, threadVars, sampler_pc, run_pc, engine_proc, username,
               games_seen, results_seen, aggregated, run_exc, swallowed_exc, games_replayed,
               callback_calls, terminal_calls, callback_args, first_run>>

GameInit ==
  /\ game_pc = "call"
  /\ pgn_plies \in 0 .. MaxPlies
  /\ first_turn \in Colors
  /\ analysed_color \in Colors
  /\ oracle_profile \in OracleProfiles
  /\ enabled \in BOOLEAN
  /\ engine \in {None, Some("engine")}
  /\ ply = 0 /\ player_move_index = 0
  /\ mistakes = EmptyGameResult /\ game_exit = "none"
  /\ total_player_moves = 0 /\ moves_to_analyze = {} /\ sampler_pc = "idle"
  /\ run_pc = "idle" /\ engine_proc = "none" /\ username = "Player"
  /\ games_seen = <<>> /\ results_seen = <<>> /\ aggregated = EmptyAggregation
  /\ run_exc = None /\ swallowed_exc = None /\ games_replayed = 0
  /\ oracle_queries = 0 /\ callback_calls = 0 /\ terminal_calls = <<>>
  /\ callback_args = <<>> /\ first_run = None
  /\ SelectionIdle /\ TasksIdle /\ ThreadsIdle
  /\ OracleIdle /\ CallIdle

\* lines 302-303
AnalyzeWithoutEngine ==
  /\ game_pc = "call"
  /\ ~enabled \/ engine = None
  /\ game_pc' = "returned"
  /\ game_exit' = "disabled"
  /\ UNCHANGED <<gameFrame, enabled, engine, oracle_queries, total_player_moves,
                 moves_to_analyze, pgn_plies, first_turn, analysed_color, oracle_profile,
                 ply, player_move_index, mistakes, oracleVars, api_call>>

\* lines 307-309: read_game finds no game in the text
ParseFindsNoGame ==
  /\ game_pc = "call"
  /\ enabled /\ engine # None
  /\ pgn_plies = 0
  /\ game_pc' = "returned"
  /\ game_exit' = "no_game"
  /\ UNCHANGED <<gameFrame, enabled, engine, oracle_queries, total_player_moves,
                 moves_to_analyze, pgn_plies, first_turn, analysed_color, oracle_profile,
                 ply, player_move_index, mistakes, oracleVars, api_call>>

\* lines 311-330: the first pass and the sampler
FirstPass ==
  /\ game_pc = "call"
  /\ enabled /\ engine # None
  /\ total_player_moves' = CountPlayerMoves(pgn_plies, first_turn, analysed_color)
  /\ moves_to_analyze' = SelectMovesToAnalyze(total_player_moves')
  /\ ply' = 0
  /\ player_move_index' = 0
  /\ game_pc' = "replay"
  /\ UNCHANGED <<gameFrame, enabled, engine, oracle_queries, pgn_plies, first_turn,
                 analysed_color, oracle_profile, mistakes, game_exit, oracleVars, api_call>>

InReplay == game_pc = "replay" /\ ply < pgn_plies

\* lines 332-343 and 408-410: the next move is the opponent's
OpponentMove ==
  /\ InReplay
  /\ TurnAt(first_turn, ply + 1) # analysed_color
  /\ ply' = ply + 1
  /\ UNCHANGED <<gameFrame, enabled, engine, oracle_queries, total_player_moves,
                 moves_to_analyze, pgn_plies, first_turn, analysed_color, oracle_profile,
                 player_move_index, mistakes, game_pc, game_exit, oracleVars, api_call>>

\* lines 345-349 and 403-407: the player's move is not in moves_to_analyze
PlayerMoveNotSelected ==
  /\ InReplay
  /\ TurnAt(first_turn, ply + 1) = analysed_color
  /\ player_move_index \notin moves_to_analyze
  /\ LET stage == GetStage((ply + 2) \div 2)
     IN mistakes' = [mistakes EXCEPT ![stage] = RecordPlayerMove(@)]
  /\ ply' = ply + 1
  /\ player_move_index' = player_move_index + 1
  /\ UNCHANGED <<gameFrame, enabled, engine, oracle_queries, total_player_moves,
                 moves_to_analyze, pgn_plies, first_turn, analysed_color, oracle_profile,
                 game_pc, game_exit, oracleVars, api_call>>

\* lines 345-359: the position is already decided, the move is skipped
PlayerMoveSkipped ==
  /\ InReplay
  /\ TurnAt(first_turn, ply + 1) = analysed_color
  /\ player_move_index \in moves_to_analyze
  /\ IsDecided(OracleAnswers(oracle_profile, player_move_index).before)
  /\ LET stage == GetStage((ply + 2) \div 2)
     IN mistakes' = [mistakes EXCEPT ![stage] = SkippedMove(@)]
  /\ oracle_queries' = oracle_queries + 1
  /\ ply' = ply + 1
  /\ player_move_index' = player_move_index + 1
  /\ UNCHANGED <<gameFrame, enabled, engine, total_player_moves, moves_to_analyze,
                 pgn_plies, first_turn, analysed_color, oracle_profile, game_pc, game_exit,
                 oracleVars, api_call>>

\* lines 345-407: the move is evaluated before and after
PlayerMoveEvaluated ==
  /\ InReplay
  /\ TurnAt(first_turn, ply + 1) = analysed_color
  /\ player_move_index \in moves_to_analyze
  /\ LET answers == OracleAnswers(oracle_profile, player_move_index)
         move_number == (ply + 2) \div 2
         stage == GetStage(move_number)
     IN /\ ~IsDecided(answers.before)
        /\ mistakes' = [mistakes EXCEPT ![stage] =
                          RecordEvaluation(RecordPlayerMove(@), answers.before,
                                           answers.after, move_number)]
  /\ oracle_queries' = oracle_queries + 2
  /\ ply' = ply + 1
  /\ player_move_index' = player_move_index + 1
  /\ UNCHANGED <<gameFrame, enabled, engine, total_player_moves, moves_to_analyze,
                 pgn_plies, first_turn, analysed_color, oracle_profile, game_pc, game_exit,
                 oracleVars, api_call>>

\* line 412: the mainline is exhausted
ReplayDone ==
  /\ game_pc = "replay"
  /\ ply = pgn_plies
  /\ game_pc' = "returned"
  /\ game_exit' = "replayed"
  /\ UNCHANGED <<gameFrame, enabled, engine, oracle_queries, total_player_moves,
                 moves_to_analyze, pgn_plies, first_turn, analysed_color, oracle_profile,
                 ply, player_move_index, mistakes, oracleVars, api_call>>

\* lines 414-416: an exception inside the try block ends the call with the
\* dictionary as filled so far
AnalysisRaises ==
  /\ \/ game_pc = "call" /\ enabled /\ engine # None
     \/ InReplay
  /\ game_pc' = "returned"
  /\ game_exit' = "exception"
  /\ UNCHANGED <<gameFrame, enabled, engine, oracle_queries, total_player_moves,
                 moves_to_analyze, pgn_plies, first_turn, analysed_color, oracle_profile,
                 ply, player_move_index, mistakes, oracleVars, api_call>>

GameNext ==
  \/ AnalyzeWithoutEngine
  \/ ParseFindsNoGame
  \/ FirstPass
  \/ OpponentMove
  \/ PlayerMoveNotSelected
  \/ PlayerMoveSkipped
  \/ PlayerMoveEvaluated
  \/ ReplayDone
  \/ AnalysisRaises

SpecGame == GameInit /\ [][GameNext]_vars

SumTotalMoves(game_mistakes) ==
  game_mistakes["early"].total_moves + game_mistakes["middle"].total_moves
    + game_mistakes["endgame"].total_moves

\* C7: for every game analysed with the engine available and replayed to the
\* end, the total_moves of the three stages add up to the number of moves the
\* analysed colour played, whichever moves were sampled, skipped as decided
\* (beyond 600 centipawns) or came back unknown.
C7_StageTotalsEqualPlayerMoves ==
  (game_pc = "returned" /\ game_exit = "replayed") =>
     /\ SumTotalMoves(mistakes) =
          Cardinality({p \in 1 .. pgn_plies :
                         IF p % 2 = 1 THEN first_turn = analysed_color
                                      ELSE first_turn # analysed_color})
     /\ SumTotalMoves(mistakes) = total_player_moves

C7_Witness ==
  /\ game_pc = "returned" /\ game_exit = "replayed"
  /\ pgn_plies = 44 /\ oracle_profile = "mixed"
  /\ first_turn = "white" /\ analysed_color = "black"
  /\ Cardinality(moves_to_analyze) = 15
  /\ mistakes["early"].total_moves = 7
  /\ mistakes["middle"].total_moves = 13
  /\ mistakes["endgame"].total_moves = 2
  /\ mistakes["early"].brilliant_moves + mistakes["early"].neutral_moves
       + mistakes["early"].mistake_moves < 5
  /\ oracle_queries = 26

\* str.lower() on the texts that occur in the model
Lower(text) ==
  CASE text = "Player" -> "player"
    [] text = "Resigned" -> "resigned"
    [] OTHER -> text

\* 'resign' in text, on the (lower-case) texts that occur in the model
ContainsResign(text) == text \in {"resigned", "resignation"}

IsLoss(player_result) ==
  player_result \in {"checkmated", "timeout", "resigned", "abandoned", "lose"}

IsQualifyingGameNoLossCheck(player_result, termination) ==
  IF termination # "" THEN ContainsResign(Lower(termination)) ELSE FALSE

\* lines 554-558
IsQualifyingGame(player_result, termination) ==
  /\ IsLoss(player_result)
  /\ IF termination # "" THEN ContainsResign(Lower(termination)) ELSE FALSE

\* line 526
PlayerColor(game_data, user) ==
  IF Lower(game_data.white.username) = Lower(user) THEN "white" ELSE "black"

\* lines 532-537: the dictionary player_result and termination are read from
PlayerSide(game_data, user) ==
  IF PlayerColor(game_data, user) = "white" THEN game_data.white ELSE game_data.black

\* the worst game replaced by every later game that has a worst mistake
MergeWorstGameLatest(agg_stage, stage_data, idx) ==
  LET worst == stage_data.worst_mistake
  IN IF worst # None
       THEN Some([game_index |-> idx, cp_loss |-> worst[1].cp_loss,
                  move_number |-> worst[1].move_number, type |-> worst[1].type])
       ELSE agg_stage.worst_game

\* lines 578-588
MergeWorstGame(agg_stage, stage_data, idx) ==
  LET worst == stage_data.worst_mistake
  IN IF worst # None
        /\ (agg_stage.worst_game = None
            \/ worst[1].cp_loss > agg_stage.worst_game[1].cp_loss)
       THEN Some([game_index |-> idx, cp_loss |-> worst[1].cp_loss,
                  move_number |-> worst[1].move_number, type |-> worst[1].type])
       ELSE agg_stage.worst_game

\* lines 590-611; the url is the game's index with the ply as its anchor
MergeCriticalGame(agg_stage, stage_data, idx, player_color, player_result, termination) ==
  LET worst == stage_data.worst_mistake
  IN IF IsQualifyingGame(player_result, termination) /\ worst # None
       THEN IF agg_stage.critical_mistake_game = None
               \/ worst[1].cp_loss > agg_stage.critical_mistake_game[1].cp_loss
              THEN LET move_num == worst[1].move_number
                       url_ply == IF player_color = "black" THEN move_num * 2 ELSE move_num * 2 - 1
                   IN Some([game_index |-> idx, ply |-> url_ply, cp_loss |-> worst[1].cp_loss,
                            move_number |-> move_num, type |-> worst[1].type,
                            result |-> player_result, termination |-> termination])
              ELSE agg_stage.critical_mistake_game
       ELSE agg_stage.critical_mistake_game

\* lines 561-611, for one stage
MergeStage(agg_stage, stage_data, idx, player_color, player_result, termination) ==
  [agg_stage EXCEPT
     !.total_moves = @ + stage_data.total_moves,
     !.inaccuracies = @ + stage_data.inaccuracies,
     !.mistakes = @ + stage_data.mistakes,
     !.blunders = @ + stage_data.blunders,
     !.missed_opps = @ + stage_data.missed_opps,
     !.cp_losses = @ \o stage_data.cp_losses,
     !.brilliant_moves = @ + stage_data.brilliant_moves,
     !.neutral_moves = @ + stage_data.neutral_moves,
     !.mistake_moves = @ + stage_data.mistake_moves,
     !.worst_game = MergeWorstGame(agg_stage, stage_data, idx),
     !.critical_mistake_game =
        MergeCriticalGame(agg_stage, stage_data, idx, player_color, player_result, termination)]

\* the stage loop of lines 561-611
MergeGame(agg, game_mistakes, idx, player_color, player_result, termination) ==
  [agg EXCEPT !.stages =
     [st \in Stages |->
        MergeStage(agg.stages[st], game_mistakes[st], idx, player_color,
                   player_result, termination)]]

\* sorted(cp_losses)[j], 0-based, for a non-empty sequence
SortedSeqNth(losses, j) ==
  CHOOSE v \in {losses[k] : k \in DOMAIN losses} :
    /\ Cardinality({k \in DOMAIN losses : losses[k] < v}) <= j
    /\ Cardinality({k \in DOMAIN losses : losses[k] <= v}) > j

Max(a, b) == IF a >= b THEN a ELSE b

\* lines 630-632; int(len * 0.75) = (3 * len) \div 4 as 0.75 is exact
SignificanceThreshold(cp_losses) ==
  LET percentile_75_idx == (3 * Len(cp_losses)) \div 4
  IN Max(IF percentile_75_idx < Len(cp_losses)
           THEN SortedSeqNth(cp_losses, percentile_75_idx)
           ELSE SIGNIFICANCE_FLOOR,
         SIGNIFICANCE_FLOOR)

\* lines 623-652, for one stage
FinishStage(agg_stage, analyzed_games_count) ==
  LET filtered ==
        IF agg_stage.cp_losses # <<>>
           /\ agg_stage.critical_mistake_game # None
           /\ agg_stage.critical_mistake_game[1].cp_loss
                < SignificanceThreshold(agg_stage.cp_losses)
          THEN None
          ELSE agg_stage.critical_mistake_game
  IN [agg_stage EXCEPT
        !.critical_mistake_game = filtered,
        !.per_game_den = IF analyzed_games_count > 0 THEN analyzed_games_count ELSE @]

\* lines 621-652
FinishAggregation(agg, analyzed_games_count) ==
  [agg EXCEPT !.stages =
     [st \in Stages |-> FinishStage(agg.stages[st], analyzed_games_count)]]

\* get_weakest_stage: the stage name and the rate total_mistakes / total_moves
\* its reason reports, as a fraction
StageOrder == <<"early", "middle", "endgame">>

StageDisplay(st) ==
  CASE st = "early" -> "Early game" [] st = "middle" -> "Middlegame" [] OTHER -> "Endgame"

\* get_weakest_stage with the stages ranked by their number of mistakes
\* instead of by total_mistakes / total_moves
GetWeakestStageByCount(agg, is_enabled) ==
  LET total_mistakes(st) ==
        agg.stages[st].inaccuracies + agg.stages[st].mistakes + agg.stages[st].blunders
      num(st) == IF agg.stages[st].total_moves > 0 THEN total_mistakes(st) ELSE 0
      den(st) == IF agg.stages[st].total_moves > 0 THEN agg.stages[st].total_moves ELSE 1
      Less(a, b) == num(a) < num(b)
      first_max == CHOOSE k \in 1 .. 3 :
                     /\ \A j \in 1 .. 3 : ~Less(StageOrder[k], StageOrder[j])
                     /\ \A j \in 1 .. (k - 1) : Less(StageOrder[j], StageOrder[k])
      weakest == StageOrder[first_max]
  IN IF ~is_enabled
       THEN [stage |-> "N/A", reason |-> "Engine analysis disabled", num |-> 0, den |-> 1]
       ELSE IF \A st \in Stages : num(st) = 0
         THEN [stage |-> "N/A", reason |-> "No mistakes detected", num |-> 0, den |-> 1]
         ELSE [stage |-> StageDisplay(weakest), reason |-> "Highest mistake rate",
               num |-> num(weakest), den |-> den(weakest)]

GetWeakestStage(agg, is_enabled) ==
  LET total_mistakes(st) ==
        agg.stages[st].inaccuracies + agg.stages[st].mistakes + agg.stages[st].blunders
      num(st) == IF agg.stages[st].total_moves > 0 THEN total_mistakes(st) ELSE 0
      den(st) == IF agg.stages[st].total_moves > 0 THEN agg.stages[st].total_moves ELSE 1
      Less(a, b) == num(a) * den(b) < num(b) * den(a)
      first_max == CHOOSE k \in 1 .. 3 :
                     /\ \A j \in 1 .. 3 : ~Less(StageOrder[k], StageOrder[j])
                     /\ \A j \in 1 .. (k - 1) : Less(StageOrder[j], StageOrder[k])
      weakest == StageOrder[first_max]
  IN IF ~is_enabled
       THEN [stage |-> "N/A", reason |-> "Engine analysis disabled", num |-> 0, den |-> 1]
       ELSE IF \A st \in Stages : num(st) = 0
         THEN [stage |-> "N/A", reason |-> "No mistakes detected", num |-> 0, den |-> 1]
         ELSE [stage |-> StageDisplay(weakest), reason |-> "Highest mistake rate",
               num |-> num(weakest), den |-> den(weakest)]

(***************************************************************************)
(* task_manager.  Each function body runs under _lock; the operators below *)
(* are the assignments of the bodies, on the two maps.  created_at,        *)
(* updated_at and metadata are never read by the task manager's decisions  *)
(* and are left out of the live record.                                    *)
(*                                                                         *)
(* percentage = int(current / total * 100) is computed in floats; for      *)
(* 0 <= current <= total <= 12, the range of the model, it equals          *)
(* (current * 100) \div total.                                             *)
(***************************************************************************)
MapPut(map, key, value) == (key :> value) @@ map

MapRemove(map, key) == [k \in (DOMAIN map) \ {key} |-> map[k]]

(***************************************************************************)
(* int(current / total * 100), line 80, in the float arithmetic Python     *)
(* uses: IEEE-754 binary64, round to nearest, ties to even.  A positive    *)
(* double is kept as five digits in base LimbBase = 2^13, the first digit  *)
(* its integer part and the other four its 52 fraction bits, times a power *)
(* of two: digits <<1, d1, d2, d3, d4>> with exp = e stand for             *)
(* (1 + d1/2^13 + d2/2^26 + d3/2^39 + d4/2^52) * 2^e.                      *)
(***************************************************************************)
LimbBase == 8192

RECURSIVE Pow2(_)
Pow2(k) == IF k = 0 THEN 1 ELSE 2 * Pow2(k - 1)

\* the least k with c * 2^k >= t
RECURSIVE DoublingsToReach(_, _)
DoublingsToReach(c, t) == IF c >= t THEN 0 ELSE 1 + DoublingsToReach(2 * c, t)

\* the largest k with c >= t * 2^k, for c >= t
RECURSIVE DoublingsBelow(_, _)
DoublingsBelow(c, t) == IF c < 2 * t THEN 0 ELSE 1 + DoublingsBelow(c, 2 * t)

\* carries from digit i towards the leading digit
RECURSIVE Carry(_, _)
Carry(digits, i) ==
  IF i > 1 /\ digits[i] >= LimbBase
    THEN Carry([digits EXCEPT ![i] = @ - LimbBase, ![i - 1] = @ + 1], i - 1)
    ELSE digits

\* current / total for positive integers: the quotient's first 53 bits by
\* long division, rounded on the remainder
FloatDivide(c, t) ==
  LET down == DoublingsToReach(c, t)
      n == c * Pow2(down)
      up == DoublingsBelow(n, t)
      d == t * Pow2(up)
      r0 == n - d
      d1 == (r0 * LimbBase) \div d
      r1 == (r0 * LimbBase) % d
      d2 == (r1 * LimbBase) \div d
      r2 == (r1 * LimbBase) % d
      d3 == (r2 * LimbBase) \div d
      r3 == (r2 * LimbBase) % d
      d4 == (r3 * LimbBase) \div d
      r4 == (r3 * LimbBase) % d
      round_up == 2 * r4 > d \/ (2 * r4 = d /\ d4 % 2 = 1)
      rounded == IF round_up THEN Carry(<<1, d1, d2, d3, d4 + 1>>, 5)
                             ELSE <<1, d1, d2, d3, d4>>
  IN IF rounded[1] = 2
       THEN [digits |-> <<1, 0, 0, 0, 0>>, exp |-> up - down + 1]
       ELSE [digits |-> rounded, exp |-> up - down]

\* x * 100: the exact product has its integer digit in 100 .. 199, so its
\* leading bit is 2^6 or 2^7 and the lowest 6 or 7 of the 52 fraction bits
\* are rounded away
FloatTimes100(x) ==
  LET x5 == x.digits[5] * 100
      x4 == x.digits[4] * 100 + x5 \div LimbBase
      x3 == x.digits[3] * 100 + x4 \div LimbBase
      x2 == x.digits[2] * 100 + x3 \div LimbBase
      x1 == x.digits[1] * 100 + x2 \div LimbBase
      exact == <<x1, x2 % LimbBase, x3 % LimbBase, x4 % LimbBase, x5 % LimbBase>>
      dropped == IF x1 < 128 THEN 6 ELSE 7
      low == exact[5] % Pow2(dropped)
      half == Pow2(dropped - 1)
      round_up == low > half \/ (low = half /\ (exact[5] \div Pow2(dropped)) % 2 = 1)
      kept == [exact EXCEPT ![5] = @ - low + (IF round_up THEN Pow2(dropped) ELSE 0)]
  IN [digits |-> Carry(kept, 5), exp |-> x.exp]

\* int(x) for x >= 0 below 2^13 * 200: the integer part
FloatToInt(x) ==
  IF x.exp <= 0
    THEN x.digits[1] \div Pow2(0 - x.exp)
    ELSE x.digits[1] * Pow2(x.exp) + x.digits[2] \div Pow2(13 - x.exp)

PercentageRounded(current, total) ==
  IF total > 0 THEN (current * 200 + total) \div (2 * total) ELSE 0

\* update_task_progress, line 80
Percentage(current, total) ==
  IF total > 0
    THEN IF current = 0 THEN 0
         ELSE FloatToInt(FloatTimes100(FloatDivide(current, total)))
    ELSE 0

\* create_task, lines 54-63
CreateTaskMap(live, task_id, total_items) ==
  MapPut(live, task_id,
         [status |-> "processing",
          progress |-> [current |-> 0, total |-> total_items, percentage |-> 0]])

\* update_task_progress, lines 77-85
UpdateTaskProgressMap(live, task_id, current, status) ==
  IF task_id \in DOMAIN live
    THEN [live EXCEPT ![task_id] =
            [status |-> status,
             progress |-> [current |-> current, total |-> @.progress.total,
                           percentage |-> Percentage(current, @.progress.total)]]]
    ELSE live

\* complete_task, lines 98-102
StoreCompleted(results, task_id, result, at) ==
  MapPut(results, task_id, [status |-> "completed", data |-> result, completed_at |-> at])

\* fail_task, lines 121-125
StoreError(results, task_id, error, at) ==
  MapPut(results, task_id, [status |-> "error", error |-> error, completed_at |-> at])

\* complete_task lines 105-106, fail_task lines 128-129
RemoveLive(live, task_id) == IF task_id \in DOMAIN live THEN MapRemove(live, task_id) ELSE live

ExpiredAtTtl(results, at) ==
  {id \in DOMAIN results : at - results[id].completed_at >= TASK_CLEANUP_TTL}

\* cleanup_old_tasks, lines 29-39: the ids it removes
Expired(results, at) ==
  {id \in DOMAIN results : at - results[id].completed_at > TASK_CLEANUP_TTL}

EstimatedSecondsRoundedDown(remaining_items) == (remaining_items * 25) \div 10

\* int(remaining_items * 2.5), lines 152-158; int() truncates towards zero
EstimatedSeconds(remaining_items) ==
  IF remaining_items >= 0
    THEN (remaining_items * 25) \div 10
    ELSE 0 - (((0 - remaining_items) * 25) \div 10)

\* get_task_status, lines 145-167
GetTaskStatus(live, results, task_id) ==
  IF task_id \in DOMAIN live
    THEN Some([status |-> "processing", progress |-> live[task_id].progress,
               estimated_remaining |->
                 EstimatedSeconds(live[task_id].progress.total
                                    - live[task_id].progress.current)])
    ELSE IF task_id \in DOMAIN results
      THEN Some(results[task_id])
      ELSE None

\* analyze_detailed, lines 295-299; int(total_games * 0.20) = total_games \div 5
\* for the list lengths of the model
EstimatedGamesToAnalyze(total) ==
  IF total < 50 THEN total ELSE Max(10, Min(50, total \div 5))

(***************************************************************************)
(* The task manager under concurrent threads.  A request thread creates a  *)
(* task under a fresh uuid4 id and starts its worker (api.py 290-320), and *)
(* calls cleanup_old_tasks (api.py 348); the worker reports progress for   *)
(* growing idx + 1 and ends in complete_task or fail_task (api.py 29-54);  *)
(* the status endpoint calls get_task_status (api.py 406).                 *)
(*                                                                         *)
(* Every function body runs under `with _lock`.  A body that writes with   *)
(* one statement, or only reads, is one step taken when the lock is        *)
(* available; complete_task and fail_task write twice and are two steps,   *)
(* the lock being held in between.                                         *)
(***************************************************************************)
TaskIds == 1 .. NumTasks

TaskResults == {"result"}

TaskErrors == {"error"}

LockAlwaysAvailable(holder) == TRUE

\* `with _lock:` can be entered (lines 28, 53, 76, 96, 119, 144)
LockAvailable(holder) == holder = "free"

\* cleanup_old_tasks, lines 29-39
SweepResults(results, at) ==
  [id \in (DOMAIN results) \ Expired(results, at) |-> results[id]]

ThreadsInit ==
  /\ background_tasks = <<>> /\ task_results = <<>> /\ now = 0
  /\ lock = "free"
  /\ worker_pc = [id \in TaskIds |-> "unborn"]
  /\ worker_idx = [id \in TaskIds |-> 0]
  /\ last_poll = None
  /\ swept = {}
  /\ SamplerIdle /\ SelectionIdle /\ RunIdle /\ GameIdle
  /\ OracleIdle /\ CallIdle

\* analyze_detailed, lines 292-320: create_task under a fresh id, start the
\* worker; the ids are handed out in the order 1, 2, ...
RequestCreatesTask ==
  /\ LockAvailable(lock)
  /\ \E id \in TaskIds, total_items \in 1 .. MaxWorkerItems :
       /\ worker_pc[id] = "unborn"
       /\ \A earlier \in 1 .. (id - 1) : worker_pc[earlier] # "unborn"
       /\ background_tasks' = CreateTaskMap(background_tasks, id, total_items)
       /\ worker_pc' = [worker_pc EXCEPT ![id] = "running"]
  /\ UNCHANGED <<task_results, now, lock, worker_idx, last_poll, swept,
                 samplerVars, selectionVars, runVars, gameVars, oracleVars, api_call>>

\* progress_callback: update_task_progress(task_id, idx + 1, 'processing');
\* a game without PGN is skipped without a report, so idx + 1 may jump
WorkerReportsProgress ==
  /\ LockAvailable(lock)
  /\ \E id \in TaskIds :
       /\ worker_pc[id] = "running"
       /\ \E current \in (worker_idx[id] + 1) .. background_tasks[id].progress.total :
            /\ background_tasks' =
                 UpdateTaskProgressMap(background_tasks, id, current, "processing")
            /\ worker_idx' = [worker_idx EXCEPT ![id] = current]
  /\ UNCHANGED <<task_results, now, lock, worker_pc, last_poll, swept,
                 samplerVars, selectionVars, runVars, gameVars, oracleVars, api_call>>

\* complete_task, lines 96-102: enter the lock, store the result
WorkerStoresResult ==
  /\ LockAvailable(lock)
  /\ \E id \in TaskIds, result \in TaskResults :
       /\ worker_pc[id] = "running"
       /\ task_results' = StoreCompleted(task_results, id, result, now)
       /\ worker_pc' = [worker_pc EXCEPT ![id] = "removing"]
  /\ lock' = "held"
  /\ UNCHANGED <<background_tasks, now, worker_idx, last_poll, swept,
                 samplerVars, selectionVars, runVars, gameVars, oracleVars, api_call>>

\* fail_task, lines 119-125: enter the lock, store the error
WorkerStoresError ==
  /\ LockAvailable(lock)
  /\ \E id \in TaskIds, error \in TaskErrors :
       /\ worker_pc[id] = "running"
       /\ task_results' = StoreError(task_results, id, error, now)
       /\ worker_pc' = [worker_pc EXCEPT ![id] = "removing"]
  /\ lock' = "held"
  /\ UNCHANGED <<background_tasks, now, worker_idx, last_poll, swept,
                 samplerVars, selectionVars, runVars, gameVars, oracleVars, api_call>>

\* complete_task lines 105-108, fail_task lines 128-131: delete the live
\* record, leave the lock
WorkerRemovesLive ==
  /\ \E id \in TaskIds :
       /\ worker_pc[id] = "removing"
       /\ background_tasks' = RemoveLive(background_tasks, id)
       /\ worker_pc' = [worker_pc EXCEPT ![id] = "done"]
  /\ lock' = "free"
  /\ UNCHANGED <<task_results, now, worker_idx, last_poll, swept,
                 samplerVars, selectionVars, runVars, gameVars, oracleVars, api_call>>

\* the status endpoint: get_task_status(task_id)
PollStatus ==
  /\ LockAvailable(lock)
  /\ \E id \in TaskIds :
       last_poll' = Some([task_id |-> id,
                          answer |-> GetTaskStatus(background_tasks, task_results, id),
                          in_live |-> id \in DOMAIN background_tasks,
                          in_results |-> id \in DOMAIN task_results,
                          created |-> worker_pc[id] # "unborn",
                          swept |-> id \in swept])
  /\ UNCHANGED <<background_tasks, task_results, now, lock, worker_pc, worker_idx, swept,
                 samplerVars, selectionVars, runVars, gameVars, oracleVars, api_call>>

\* analyze_detailed, line 348: cleanup_old_tasks()
RequestSweeps ==
  /\ LockAvailable(lock)
  /\ task_results' = SweepResults(task_results, now)
  /\ swept' = swept \cup Expired(task_results, now)
  /\ UNCHANGED <<background_tasks, now, lock, worker_pc, worker_idx, last_poll,
                 samplerVars, selectionVars, runVars, gameVars, oracleVars, api_call>>

\* datetime.now() advances
Tick ==
  /\ now + TickSeconds <= MaxClock
  /\ now' = now + TickSeconds
  /\ UNCHANGED <<background_tasks, task_results, threadVars,
                 samplerVars, selectionVars, runVars, gameVars, oracleVars, api_call>>

ThreadsNext ==
  \/ RequestCreatesTask
  \/ WorkerReportsProgress
  \/ WorkerStoresResult
  \/ WorkerStoresError
  \/ WorkerRemovesLive
  \/ PollStatus
  \/ RequestSweeps
  \/ Tick

SpecTasks == ThreadsInit /\ [][ThreadsNext]_vars

\* C3: a task created once before its worker started is, for every thread
\* that can look (the lock being free, or taken by get_task_status), in
\* exactly one of the two maps until its terminal record is swept:
\* get_task_status never answers not-found for it and never sees it in the
\* live map and the results map at once.
C3_TaskInExactlyOneMap ==
  /\ \A id \in TaskIds :
       (lock = "free" /\ worker_pc[id] # "unborn" /\ id \notin swept) =>
          ((id \in DOMAIN background_tasks) # (id \in DOMAIN task_results))
  /\ \A id \in TaskIds : id \in swept =>
       (id \notin DOMAIN background_tasks /\ id \notin DOMAIN task_results)
  /\ last_poll # None =>
       /\ ~(last_poll[1].in_live /\ last_poll[1].in_results)
       /\ (last_poll[1].created /\ ~last_poll[1].swept) =>
            /\ last_poll[1].answer # None
            /\ last_poll[1].in_live # last_poll[1].in_results
            /\ (last_poll[1].answer[1].status = "processing") = last_poll[1].in_live

C3_Witness ==
  /\ lock = "held"
  /\ worker_pc[1] = "removing"
  /\ 1 \in DOMAIN background_tasks /\ 1 \in DOMAIN task_results
  /\ last_poll # None
  /\ last_poll[1].task_id = 1
  /\ last_poll[1].answer # None
  /\ last_poll[1].answer[1].status = "processing"
  /\ worker_pc[2] = "done"
  /\ 2 \in swept

(***************************************************************************)
(* The task manager called in any order: every function of the module, on  *)
(* any task id, with any argument of a small set.                          *)
(***************************************************************************)
ProgressStatuses == {"processing", "completed", "error"}

ApiInit ==
  /\ background_tasks = <<>> /\ task_results = <<>> /\ now = 0
  /\ ThreadsIdle /\ SamplerIdle /\ SelectionIdle /\ RunIdle /\ GameIdle
  /\ OracleIdle /\ CallIdle

\* create_task(task_id, total_items)
ApiCreateTask ==
  /\ \E id \in TaskIds, total_items \in 0 .. MaxItems :
       background_tasks' = CreateTaskMap(background_tasks, id, total_items)
  /\ UNCHANGED <<task_results, now, threadVars, samplerVars, selectionVars, runVars,
                 gameVars, oracleVars, api_call>>

\* update_task_progress(task_id, current, status)
ApiUpdateTaskProgress ==
  /\ \E id \in TaskIds, current \in 0 .. MaxItems, status \in ProgressStatuses :
       background_tasks' = UpdateTaskProgressMap(background_tasks, id, current, status)
  /\ UNCHANGED <<task_results, now, threadVars, samplerVars, selectionVars, runVars,
                 gameVars, oracleVars, api_call>>

\* complete_task(task_id, result)
ApiCompleteTask ==
  /\ \E id \in TaskIds, result \in TaskResults :
       /\ task_results' = StoreCompleted(task_results, id, result, now)
       /\ background_tasks' = RemoveLive(background_tasks, id)
  /\ UNCHANGED <<now, threadVars, samplerVars, selectionVars, runVars, gameVars,
                 oracleVars, api_call>>

\* fail_task(task_id, error)
ApiFailTask ==
  /\ \E id \in TaskIds, error \in TaskErrors :
       /\ task_results' = StoreError(task_results, id, error, now)
       /\ background_tasks' = RemoveLive(background_tasks, id)
  /\ UNCHANGED <<now, threadVars, samplerVars, selectionVars, runVars, gameVars,
                 oracleVars, api_call>>

\* cleanup_old_tasks()
ApiCleanupOldTasks ==
  /\ task_results' = SweepResults(task_results, now)
  /\ UNCHANGED <<background_tasks, now, threadVars, samplerVars, selectionVars, runVars,
                 gameVars, oracleVars, api_call>>

ApiNext ==
  \/ ApiCreateTask
  \/ ApiUpdateTaskProgress
  \/ ApiCompleteTask
  \/ ApiFailTask
  \/ ApiCleanupOldTasks
  \/ Tick

SpecTaskApi == ApiInit /\ [][ApiNext]_vars

\* the status and the payload of a terminal record
TerminalPayload(record) ==
  IF record.status = "completed" THEN <<"completed", record.data>>
  ELSE <<"error", record.error>>

\* C2: for every task id and any sequence of task-manager operations, once a
\* terminal record exists it is never replaced by the other terminal status,
\* its result or error is never overwritten, and the id never returns to
\* processing (the record may only disappear, by the sweep).
C2_StatusOnlyMovesForward ==
  [][\A id \in TaskIds :
       id \in DOMAIN task_results =>
         /\ id \notin DOMAIN background_tasks'
         /\ id \in DOMAIN task_results' =>
              TerminalPayload(task_results'[id]) = TerminalPayload(task_results[id])]_vars

(***************************************************************************)
(* One background run: analyze_detailed creates the task and starts the    *)
(* worker; the worker (run_mistake_analysis_background) calls              *)
(* aggregate_mistake_analysis with update_task_progress as the callback    *)
(* and ends in complete_task or fail_task.                                 *)
(*                                                                         *)
(* The inputs of the run:                                                  *)
(*   - the games, taken from GameInputs as the loop reaches them;          *)
(*   - what analyze_game_mistakes returns for a game, taken from           *)
(*     GameResults (the per-game analysis is SpecGame's subject);          *)
(*   - whether the engine process starts, and whether quit() raises.       *)
(***************************************************************************)
TheTask == 1

\* a game record of the Chess.com shape: the analysed player sits on `side`
GameRecord(side, result, termination) ==
  [wellformed |-> TRUE, pgn |-> TRUE,
   white |-> IF side = "white"
               THEN [username |-> "player", result |-> result, termination |-> termination]
               ELSE [username |-> "opponent", result |-> "win", termination |-> termination],
   black |-> IF side = "black"
               THEN [username |-> "player", result |-> result, termination |-> termination]
               ELSE [username |-> "opponent", result |-> "win", termination |-> termination]]

\* games whose analysis is attempted
PlayableGames ==
  {GameRecord("white", "win", "resigned"),
   GameRecord("black", "resigned", "Resigned"),
   GameRecord("white", "checkmated", "checkmated"),
   GameRecord("white", "resigned", "")}

\* a game with an empty 'pgn'
GameWithoutPgn == [GameRecord("white", "resigned", "resigned") EXCEPT !.pgn = FALSE]

\* a game whose 'white' entry is not a dictionary of strings: resolving the
\* player's colour (lines 524-537) raises AttributeError
MalformedGame == [GameRecord("white", "resigned", "resigned") EXCEPT !.wellformed = FALSE]

GameInputs == PlayableGames \cup {GameWithoutPgn, MalformedGame}

\* the stage result analyze_game_mistakes builds from the losses it records
\* (each at least INACCURACY_THRESHOLD), lines 377-399
RECURSIVE WorstOf(_, _, _)
WorstOf(losses, k, move_number) ==
  IF k = 0 THEN None
  ELSE LET before == WorstOf(losses, k - 1, move_number)
       IN IF before = None \/ losses[k] > before[1].cp_loss
            THEN Some([move_number |-> move_number, cp_loss |-> losses[k],
                       type |-> ClassifyMistake(losses[k])])
            ELSE before

StageResultOf(total, losses, neutral, move_number) ==
  LET count(type) == Cardinality({k \in DOMAIN losses : ClassifyMistake(losses[k]) = type})
  IN [total_moves |-> total, inaccuracies |-> count("inaccuracy"),
      mistakes |-> count("mistake"), blunders |-> count("blunder"),
      missed_opps |-> 0, cp_losses |-> losses,
      worst_mistake |-> WorstOf(losses, Len(losses), move_number),
      brilliant_moves |-> 0, neutral_moves |-> neutral, mistake_moves |-> Len(losses)]

StageMoves(st) == CASE st = "early" -> 7 [] st = "middle" -> 13 [] OTHER -> 5

StageMoveNumber(st) == CASE st = "early" -> 4 [] st = "middle" -> 12 [] OTHER -> 23

LossSeqs == {<<60>>, <<350>>, <<400>>}

\* a game replayed to the end with the losses recorded in one stage
GameResultWith(lossy, losses) ==
  [st \in Stages |->
     StageResultOf(StageMoves(st), IF st = lossy THEN losses ELSE <<>>, 2,
                   StageMoveNumber(st))]

\* what analyze_game_mistakes may return: the untouched dictionary (the PGN
\* did not parse, lines 308-309 and 414-416), or the result of a replay
GameResults ==
  {EmptyGameResult, GameResultWith("early", <<>>)}
    \cup {GameResultWith(st, <<350>>) : st \in Stages}
    \cup {GameResultWith("early", losses) : losses \in LossSeqs}

\* calls of _evaluate_position behind a result: two per evaluated move
QueriesOf(game_mistakes) ==
  LET evaluated(st) == game_mistakes[st].brilliant_moves + game_mistakes[st].neutral_moves
                         + game_mistakes[st].mistake_moves
  IN 2 * (evaluated("early") + evaluated("middle") + evaluated("endgame"))

Usernames == {"Player", NoneVal}

RunInit ==
  /\ run_pc = "submit"
  /\ enabled \in BOOLEAN
  /\ username \in Usernames
  /\ total_games \in 1 .. MaxRunGames
  /\ games_to_analyze = <<>> /\ analyzed_games = 0 /\ selection_pc = "call"
  /\ engine = None /\ engine_proc = "none"
  /\ games_seen = <<>> /\ results_seen = <<>>
  /\ aggregated = EmptyAggregation /\ run_exc = None /\ swallowed_exc = None
  /\ games_replayed = 0 /\ oracle_queries = 0 /\ callback_calls = 0
  /\ terminal_calls = <<>> /\ callback_args = <<>> /\ first_run = None
  /\ TasksIdle /\ SamplerIdle /\ GameIdle /\ ThreadsIdle
  /\ OracleIdle /\ CallIdle

\* a second call of aggregate_mistake_analysis on the same service instance
\* gets the same games_data and username, its oracle answers as it did in the
\* first call, and Stockfish starts (or fails to start) as it did then
SameGameAsFirstRun(k, game_data, result) ==
  IF first_run = None THEN TRUE
  ELSE /\ k <= Len(first_run[1].games_seen)
       /\ first_run[1].games_seen[k] = game_data
       /\ first_run[1].results_seen[k] = result

SameStartAsFirstRun(started) ==
  IF first_run = None THEN TRUE ELSE first_run[1].engine_started = started

\* analyze_detailed, lines 290-320: create the task, start the worker thread
SubmitTask ==
  /\ run_pc = "submit"
  /\ background_tasks' = CreateTaskMap(background_tasks, TheTask, EstimatedGamesToAnalyze(total_games))
  /\ run_pc' = "spawned"
  /\ UNCHANGED <<task_results, now, enabled, engine, engine_proc, username, games_seen,
                 results_seen, aggregated, run_exc, swallowed_exc, games_replayed,
                 oracle_queries, callback_calls, terminal_calls, samplerVars,
                 selectionVars, gameVars, threadVars, callback_args, first_run, oracleVars,
                 api_call>>

\* aggregate_mistake_analysis, lines 432-433
AggregateDisabled ==
  /\ run_pc = "spawned"
  /\ ~enabled
  /\ aggregated' = EmptyAggregation
  /\ run_pc' = "returned"
  /\ UNCHANGED <<taskVars, enabled, engine, engine_proc, username, games_seen,
                 results_seen, run_exc, swallowed_exc, games_replayed, oracle_queries,
                 callback_calls, terminal_calls, samplerVars, selectionVars, gameVars,
                 threadVars, callback_args, first_run, oracleVars, api_call>>

StartEngineFailsContinues ==
  /\ run_pc = "spawned"
  /\ enabled
  /\ engine' = None
  /\ run_pc' = "setup"
  /\ UNCHANGED <<taskVars, enabled, engine_proc, username, games_seen, aggregated,
                 results_seen, run_exc, swallowed_exc, games_replayed, oracle_queries,
                 callback_calls, terminal_calls, samplerVars, selectionVars, gameVars,
                 threadVars, callback_args, first_run, oracleVars, api_call>>

\* lines 436-439 with _start_engine raising inside popen_uci (lines 81-83)
StartEngineFails ==
  /\ run_pc = "spawned"
  /\ enabled
  /\ SameStartAsFirstRun(FALSE)
  /\ engine' = None
  /\ aggregated' = EmptyAggregation
  /\ run_pc' = "returned"
  /\ UNCHANGED <<taskVars, enabled, engine_proc, username, games_seen, results_seen,
                 run_exc, swallowed_exc, games_replayed, oracle_queries, callback_calls,
                 terminal_calls, samplerVars, selectionVars, gameVars, threadVars,
                 callback_args, first_run, oracleVars, api_call>>

\* lines 436-437 with _start_engine returning the engine (lines 78-80)
StartEngine ==
  /\ run_pc = "spawned"
  /\ enabled
  /\ SameStartAsFirstRun(TRUE)
  /\ engine' = Some("engine")
  /\ engine_proc' = "running"
  /\ run_pc' = "setup"
  /\ UNCHANGED <<taskVars, enabled, username, games_seen, results_seen, aggregated,
                 run_exc, swallowed_exc, games_replayed, oracle_queries, callback_calls,
                 terminal_calls, samplerVars, selectionVars, gameVars, threadVars,
                 callback_args, first_run, oracleVars, api_call>>

\* lines 441-518 with username = None: username.lower() raises at line 501,
\* between the engine's start and the try block of line 520
SetupRaises ==
  /\ run_pc = "setup"
  /\ username = NoneVal
  /\ run_exc' = Some("AttributeError: 'NoneType' object has no attribute 'lower'")
  /\ run_pc' = "raised"
  /\ UNCHANGED <<taskVars, enabled, engine, engine_proc, username, games_seen,
                 results_seen, aggregated, swallowed_exc, games_replayed, oracle_queries,
                 callback_calls, terminal_calls, samplerVars, selectionVars, gameVars,
                 threadVars, callback_args, first_run, oracleVars, api_call>>

SetupKeepsAggregate ==
  /\ run_pc = "setup"
  /\ username # NoneVal
  /\ games_to_analyze' = GamesToAnalyze(total_games)
  /\ analyzed_games' = Len(games_to_analyze')
  /\ selection_pc' = "done"
  /\ aggregated' = [aggregated EXCEPT !.sample_info =
                      InitialAggregation(total_games, games_to_analyze').sample_info]
  /\ run_pc' = "loop"
  /\ UNCHANGED <<taskVars, total_games, enabled, engine, engine_proc, username, games_seen,
                 results_seen, run_exc, swallowed_exc, games_replayed, oracle_queries,
                 callback_calls, terminal_calls, samplerVars, gameVars, threadVars,
                 callback_args, first_run, oracleVars, api_call>>

\* lines 441-518
Setup ==
  /\ run_pc = "setup"
  /\ username # NoneVal
  /\ games_to_analyze' = GamesToAnalyze(total_games)
  /\ analyzed_games' = Len(games_to_analyze')
  /\ selection_pc' = "done"
  /\ aggregated' = InitialAggregation(total_games, games_to_analyze')
  /\ run_pc' = "loop"
  /\ UNCHANGED <<taskVars, total_games, enabled, engine, engine_proc, username, games_seen,
                 results_seen, run_exc, swallowed_exc, games_replayed, oracle_queries,
                 callback_calls, terminal_calls, samplerVars, gameVars, threadVars,
                 callback_args, first_run, oracleVars, api_call>>

InLoop == run_pc = "loop" /\ Len(games_seen) < Len(games_to_analyze)

\* lines 524-537 raise on the next game; the exception is caught at line 662
GameMalformed ==
  /\ InLoop
  /\ SameGameAsFirstRun(Len(games_seen) + 1, MalformedGame, None)
  /\ games_seen' = Append(games_seen, MalformedGame)
  /\ results_seen' = Append(results_seen, None)
  /\ swallowed_exc' = Some("AttributeError: 'NoneType' object has no attribute 'get'")
  /\ run_pc' = "finally"
  /\ UNCHANGED <<taskVars, enabled, engine, engine_proc, username, aggregated, run_exc,
                 games_replayed, oracle_queries, callback_calls, terminal_calls,
                 samplerVars, selectionVars, gameVars, threadVars, callback_args,
                 first_run, oracleVars, api_call>>

\* lines 539-542: the next game has no PGN and is skipped by `continue`
GameMissingPgn ==
  /\ InLoop
  /\ SameGameAsFirstRun(Len(games_seen) + 1, GameWithoutPgn, None)
  /\ games_seen' = Append(games_seen, GameWithoutPgn)
  /\ results_seen' = Append(results_seen, None)
  /\ UNCHANGED <<taskVars, run_pc, enabled, engine, engine_proc, username, aggregated,
                 run_exc, swallowed_exc, games_replayed, oracle_queries, callback_calls,
                 terminal_calls, samplerVars, selectionVars, gameVars, threadVars,
                 callback_args, first_run, oracleVars, api_call>>

\* lines 524-619 for the next game: resolve, analyse, merge, report progress
\* (progress_callback is update_task_progress(task_id, idx + 1, 'processing'))
\* the loop body with an engine process per game: the process is stopped when
\* the game has been analysed
GameAnalyzedStopsEngine ==
  /\ InLoop
  /\ \E game_data \in PlayableGames, game_mistakes \in GameResults :
       LET idx == Len(games_seen)
           player_color == PlayerColor(game_data, username)
           side == PlayerSide(game_data, username)
       IN /\ SameGameAsFirstRun(idx + 1, game_data, Some(game_mistakes))
          /\ games_seen' = Append(games_seen, game_data)
          /\ results_seen' = Append(results_seen, Some(game_mistakes))
          /\ games_replayed' = games_replayed + 1
          /\ oracle_queries' = oracle_queries + QueriesOf(game_mistakes)
          /\ aggregated' = MergeGame(aggregated, game_mistakes, idx, player_color,
                                     side.result, side.termination)
          /\ callback_calls' = callback_calls + 1
          /\ callback_args' = Append(callback_args, <<idx + 1, Len(games_to_analyze)>>)
          /\ background_tasks' =
               UpdateTaskProgressMap(background_tasks, TheTask, idx + 1, "processing")
  /\ engine_proc' = "stopped"
  /\ UNCHANGED <<task_results, now, run_pc, enabled, engine, username, run_exc,
                 swallowed_exc, terminal_calls, samplerVars, selectionVars, gameVars,
                 threadVars, first_run, oracleVars, api_call>>

GameAnalyzed ==
  /\ InLoop
  /\ \E game_data \in PlayableGames, game_mistakes \in GameResults :
       LET idx == Len(games_seen)
           player_color == PlayerColor(game_data, username)
           side == PlayerSide(game_data, username)
       IN /\ SameGameAsFirstRun(idx + 1, game_data, Some(game_mistakes))
          /\ games_seen' = Append(games_seen, game_data)
          /\ results_seen' = Append(results_seen, Some(game_mistakes))
          /\ games_replayed' = games_replayed + 1
          /\ oracle_queries' = oracle_queries + QueriesOf(game_mistakes)
          /\ aggregated' = MergeGame(aggregated, game_mistakes, idx, player_color,
                                     side.result, side.termination)
          /\ callback_calls' = callback_calls + 1
          /\ callback_args' = Append(callback_args, <<idx + 1, Len(games_to_analyze)>>)
          /\ background_tasks' =
               UpdateTaskProgressMap(background_tasks, TheTask, idx + 1, "processing")
  /\ UNCHANGED <<task_results, now, run_pc, enabled, engine, engine_proc, username, run_exc,
                 swallowed_exc, terminal_calls, samplerVars, selectionVars, gameVars,
                 threadVars, first_run, oracleVars, api_call>>

\* lines 621-660, after the last game
LoopDone ==
  /\ run_pc = "loop"
  /\ Len(games_seen) = Len(games_to_analyze)
  /\ aggregated' = FinishAggregation(aggregated, Len(games_to_analyze))
  /\ run_pc' = "finally"
  /\ UNCHANGED <<taskVars, enabled, engine, engine_proc, username, games_seen,
                 results_seen, run_exc, swallowed_exc, games_replayed, oracle_queries,
                 callback_calls, terminal_calls, samplerVars, selectionVars, gameVars,
                 threadVars, callback_args, first_run, oracleVars, api_call>>

\* _stop_engine with quit() returning or raising: either way the handle is dropped
QuitOutcomes == {"stopped", "quit_error"}

\* _stop_engine, lines 87-94
StopEngine(outcome) ==
  /\ engine_proc' = outcome
  /\ engine' = None

\* lines 664-668: the finally block, then return aggregated
Finally ==
  /\ run_pc = "finally"
  /\ \E outcome \in QuitOutcomes : StopEngine(outcome)
  /\ run_pc' = "returned"
  /\ UNCHANGED <<taskVars, enabled, username, games_seen, results_seen, aggregated,
                 run_exc, swallowed_exc, games_replayed, oracle_queries, callback_calls,
                 terminal_calls, samplerVars, selectionVars, gameVars, threadVars,
                 callback_args, first_run, oracleVars, api_call>>

\* the dictionary run_mistake_analysis_background hands to complete_task
WorkerResult(agg, is_enabled) ==
  [analysis |-> agg, weakest |-> GetWeakestStage(agg, is_enabled)]

\* run_mistake_analysis_background, lines 43-49
WorkerCompletes ==
  /\ run_pc = "returned"
  /\ task_results' = StoreCompleted(task_results, TheTask, WorkerResult(aggregated, enabled), now)
  /\ background_tasks' = RemoveLive(background_tasks, TheTask)
  /\ terminal_calls' = Append(terminal_calls, "complete_task")
  /\ run_pc' = "done"
  /\ UNCHANGED <<now, enabled, engine, engine_proc, username, games_seen, results_seen,
                 aggregated, run_exc, swallowed_exc, games_replayed, oracle_queries,
                 callback_calls, samplerVars, selectionVars, gameVars, threadVars,
                 callback_args, first_run, oracleVars, api_call>>

WorkerFailsOnlyLogs ==
  /\ run_pc = "raised"
  /\ run_pc' = "done"
  /\ UNCHANGED <<taskVars, enabled, engine, engine_proc, username, games_seen,
                 results_seen, aggregated, run_exc, swallowed_exc, games_replayed,
                 oracle_queries, callback_calls, terminal_calls, samplerVars,
                 selectionVars, gameVars, threadVars, callback_args, first_run, oracleVars,
                 api_call>>

\* run_mistake_analysis_background, lines 51-54
WorkerFails ==
  /\ run_pc = "raised"
  /\ task_results' = StoreError(task_results, TheTask, run_exc[1], now)
  /\ background_tasks' = RemoveLive(background_tasks, TheTask)
  /\ terminal_calls' = Append(terminal_calls, "fail_task")
  /\ run_pc' = "done"
  /\ UNCHANGED <<now, enabled, engine, engine_proc, username, games_seen, results_seen,
                 aggregated, run_exc, swallowed_exc, games_replayed, oracle_queries,
                 callback_calls, samplerVars, selectionVars, gameVars, threadVars,
                 callback_args, first_run, oracleVars, api_call>>

RunNext ==
  \/ SubmitTask
  \/ AggregateDisabled
  \/ StartEngineFails
  \/ StartEngine
  \/ SetupRaises
  \/ Setup
  \/ GameMalformed
  \/ GameMissingPgn
  \/ GameAnalyzed
  \/ LoopDone
  \/ Finally
  \/ WorkerCompletes
  \/ WorkerFails

SpecRun == RunInit /\ [][RunNext]_vars

\* what a finished call of aggregate_mistake_analysis got and gave
RunRecord ==
  [games_to_analyze |-> games_to_analyze, games_seen |-> games_seen,
   results_seen |-> results_seen, engine_started |-> (engine_proc # "none"),
   aggregated |-> aggregated]

\* aggregate_mistake_analysis is called once more on the same instance with
\* the same arguments: self.enabled and self.engine are as the first call left
\* them, the locals of the call (lines 441-501) are fresh
CallAgain ==
  /\ run_pc = "returned"
  /\ first_run = None
  /\ first_run' = Some(RunRecord)
  /\ run_pc' = "spawned"
  /\ games_to_analyze' = <<>> /\ analyzed_games' = 0 /\ selection_pc' = "call"
  /\ games_seen' = <<>> /\ results_seen' = <<>>
  /\ swallowed_exc' = None
  /\ games_replayed' = 0 /\ oracle_queries' = 0
  /\ callback_calls' = 0 /\ callback_args' = <<>>
  /\ engine_proc' = "none"
  /\ UNCHANGED <<taskVars, total_games, enabled, engine, username, aggregated, run_exc,
                 terminal_calls, samplerVars, gameVars, threadVars, oracleVars, api_call>>

RerunNext ==
  \/ RunNext
  \/ CallAgain

SpecRerun == RunInit /\ [][RerunNext]_vars

\* the worker thread runs to its end once started (threading.Thread, api.py 315-320)
FairSpecRun == SpecRun /\ WF_vars(RunNext)

(***************************************************************************)
(* Properties of a background run                                          *)
(***************************************************************************)
RunEnded == run_pc \in {"returned", "raised", "done"}

EngineWasStarted == engine_proc # "none"

\* C1: on every exit path of aggregate_mistake_analysis taken after the engine
\* process was started (normal return, an exception in the loop, an exception
\* between the start and the loop) the engine process is stopped and the
\* service holds no engine handle when the call ends.
C1_EngineStoppedOnEveryExit ==
  (RunEnded /\ EngineWasStarted) => (engine = None /\ engine_proc # "running")

\* C4: every created task eventually leaves processing, the worker having
\* called exactly one of complete_task and fail_task, whether the aggregation
\* returned a result, returned the empty result or raised.
C4_TaskLeavesProcessing ==
  /\ (TheTask \in DOMAIN background_tasks)
       ~> (/\ TheTask \notin DOMAIN background_tasks
           /\ TheTask \in DOMAIN task_results
           /\ terminal_calls \in {<<"complete_task">>, <<"fail_task">>})
  /\ [](Len(terminal_calls) <= 1)
  /\ [](run_pc = "done" => Len(terminal_calls) = 1)

C4_Witness ==
  /\ run_pc = "done"
  /\ terminal_calls = <<"fail_task">>
  /\ TheTask \notin DOMAIN background_tasks
  /\ task_results[TheTask].status = "error"

\* C5: if the run raised an exception during execution (resolving or merging
\* a game, or before the loop), the task ends in the error state carrying the
\* exception's message, and no partial aggregation is stored as completed.
C5_RaisedRunEndsInError ==
  (run_pc = "done" /\ (swallowed_exc # None \/ run_exc # None)) =>
     /\ task_results[TheTask].status = "error"
     /\ task_results[TheTask].error = (IF run_exc # None THEN run_exc[1] ELSE swallowed_exc[1])

AllZeroStage(agg_stage) ==
  /\ agg_stage.total_moves = 0 /\ agg_stage.inaccuracies = 0 /\ agg_stage.mistakes = 0
  /\ agg_stage.blunders = 0 /\ agg_stage.missed_opps = 0
  /\ agg_stage.brilliant_moves = 0 /\ agg_stage.neutral_moves = 0
  /\ agg_stage.mistake_moves = 0
  /\ agg_stage.cp_losses = <<>>
  /\ agg_stage.worst_game = None /\ agg_stage.critical_mistake_game = None

\* C6: if the engine process cannot be started (or analysis is disabled) the
\* call returns, without raising, a result whose three stages are all zero
\* with empty loss lists and no worst or critical record; no game is
\* replayed, no position is evaluated, the progress callback is not invoked.
C6_EngineUnavailableGivesEmptyResult ==
  (RunEnded /\ (~enabled \/ ~EngineWasStarted)) =>
     /\ run_exc = None /\ swallowed_exc = None
     /\ run_pc # "raised"
     /\ \A st \in Stages : AllZeroStage(aggregated.stages[st])
     /\ aggregated.sample_info.analyzed_games = 0
     /\ games_seen = <<>> /\ games_replayed = 0 /\ oracle_queries = 0
     /\ callback_calls = 0
     /\ (TheTask \in DOMAIN background_tasks => background_tasks[TheTask].progress.current = 0)
     /\ (run_pc = "done" =>
           /\ task_results[TheTask].status = "completed"
           /\ \A st \in Stages : AllZeroStage(task_results[TheTask].data.analysis.stages[st]))

C6_Witness ==
  /\ run_pc = "done"
  /\ enabled
  /\ ~EngineWasStarted
  /\ total_games = 2
  /\ task_results[TheTask].status = "completed"

\* the analysed player's side of a game seen by the loop, read off the record
SideOfPlayer(game_data) ==
  IF game_data.white.username = "player" THEN game_data.white ELSE game_data.black

LostByResignation(game_data) ==
  /\ SideOfPlayer(game_data).result \in {"checkmated", "timeout", "resigned", "abandoned", "lose"}
  /\ SideOfPlayer(game_data).termination \in {"resigned", "Resigned"}

\* the games seen so far that lost by resignation and have a worst mistake in st
EligibleFor(st) ==
  {k \in 1 .. Len(games_seen) :
     /\ results_seen[k] # None
     /\ LostByResignation(games_seen[k])
     /\ results_seen[k][1][st].worst_mistake # None}

WorstLossOf(k, st) == results_seen[k][1][st].worst_mistake[1].cp_loss

\* C10: a stage's critical_mistake_game is only ever populated from a game the
\* player lost by resignation; other games never populate or displace it;
\* among the eligible games the one with the maximum cp_loss is kept (the
\* first of them on a tie) until the significance filter of the post-pass.
C10_CriticalOnlyFromResignedLosses ==
  run_pc \in {"loop", "finally", "returned", "done"} =>
    \A st \in Stages :
      LET critical == aggregated.stages[st].critical_mistake_game
      IN /\ critical # None =>
              /\ critical[1].game_index + 1 \in EligibleFor(st)
              /\ critical[1].cp_loss = WorstLossOf(critical[1].game_index + 1, st)
              /\ \A k \in EligibleFor(st) : WorstLossOf(k, st) <= critical[1].cp_loss
              /\ \A k \in EligibleFor(st) :
                   WorstLossOf(k, st) = critical[1].cp_loss => critical[1].game_index + 1 <= k
         /\ (run_pc = "loop" /\ EligibleFor(st) # {}) => critical # None

C10_Witness ==
  /\ run_pc = "loop"
  /\ Len(games_seen) = 2
  /\ ~LostByResignation(games_seen[1])
  /\ SideOfPlayer(games_seen[1]).result = "win"
  /\ results_seen[1][1]["early"].worst_mistake # None
  /\ results_seen[1][1]["early"].worst_mistake[1].cp_loss = 400
  /\ LostByResignation(games_seen[2])
  /\ aggregated.stages["early"].critical_mistake_game # None
  /\ aggregated.stages["early"].critical_mistake_game[1].cp_loss = 350
  /\ aggregated.stages["early"].critical_mistake_game[1].game_index = 1
  /\ aggregated.stages["early"].worst_game[1].cp_loss = 400

\* the 75th-percentile element of a stage's recorded losses: sorted(cp_losses)[int(len * 0.75)]
P75(cp_losses) == SortedSeqNth(cp_losses, (3 * Len(cp_losses)) \div 4)

\* C11: when an aggregation run returns its result, every stage's
\* critical_mistake_game is none or has cp_loss >= max(P75, 300), P75 being
\* the 75th-percentile element of the stage's recorded centipawn losses.
C11_CriticalMeetsSignificanceThreshold ==
  (run_pc \in {"returned", "done"} /\ EngineWasStarted) =>
     \A st \in Stages :
        LET critical == aggregated.stages[st].critical_mistake_game
        IN critical # None =>
             critical[1].cp_loss >= Max(P75(aggregated.stages[st].cp_losses), 300)


\* the step of analyze_game_mistakes that evaluates the player's next move
\* with both evaluations known
EvaluatedMoveStep ==
  /\ oracle_queries' = oracle_queries + 2
  /\ game_pc = "replay"
  /\ OracleAnswers(oracle_profile, player_move_index).before # None
  /\ OracleAnswers(oracle_profile, player_move_index).after # None

Delta(field) ==
  LET stage == GetStage((ply + 2) \div 2)
  IN mistakes'[stage][field] - mistakes[stage][field]

\* C12: for every evaluated move (both evaluations known, not skipped) the
\* severity recorded depends on cp_loss alone: >= 200 blunder, 100..199
\* mistake, 50..99 inaccuracy, below 50 none; the simplified class is
\* brilliant when the position improved by >= 100, mistake when it worsened
\* by >= 50 and neutral otherwise, and exactly one of the three simplified
\* counters is incremented.
C12_SeverityAndSimplifiedClass ==
  [][EvaluatedMoveStep =>
       LET answers == OracleAnswers(oracle_profile, player_move_index)
           \* evaluation after the move from the player's side, minus before
           improved == (0 - answers.after[1]) - answers.before[1]
           worsened == 0 - improved
       IN /\ Delta("blunders") = IF worsened >= 200 THEN 1 ELSE 0
          /\ Delta("mistakes") = IF worsened >= 100 /\ worsened <= 199 THEN 1 ELSE 0
          /\ Delta("inaccuracies") = IF worsened >= 50 /\ worsened <= 99 THEN 1 ELSE 0
          /\ Delta("brilliant_moves") = IF improved >= 100 THEN 1 ELSE 0
          /\ Delta("mistake_moves") = IF worsened >= 50 THEN 1 ELSE 0
          /\ Delta("neutral_moves") = IF improved < 100 /\ worsened < 50 THEN 1 ELSE 0
          /\ Delta("brilliant_moves") + Delta("mistake_moves") + Delta("neutral_moves") = 1
  ]_vars

C12_Witness ==
  /\ game_pc = "returned" /\ game_exit = "replayed"
  /\ oracle_profile = "boundaries"
  /\ mistakes["early"].cp_losses = <<50, 99, 100, 199, 200>>
  /\ mistakes["early"].inaccuracies = 2
  /\ mistakes["early"].mistakes = 2
  /\ mistakes["early"].blunders = 1
  /\ mistakes["early"].mistake_moves = 5
  /\ mistakes["early"].neutral_moves = 2
  /\ mistakes["early"].brilliant_moves = 0
  /\ mistakes["middle"].brilliant_moves = 1

\* the step of analyze_game_mistakes on a sampled move for which the oracle
\* answers unknown before or after the move
UnknownEvaluationStep ==
  /\ oracle_queries' = oracle_queries + 2
  /\ game_pc = "replay"
  /\ \/ OracleAnswers(oracle_profile, player_move_index).before = None
     \/ OracleAnswers(oracle_profile, player_move_index).after = None

\* C13: when the oracle returns unknown for the position before or after a
\* sampled move, the move adds one to its stage's total_moves and nothing
\* else: no severity counter, no brilliant/neutral/mistake counter, no
\* cp_loss and no worst mistake; unknown is not scored as 0.
C13_UnknownEvaluationSkipsMove ==
  [][UnknownEvaluationStep =>
       LET stage == GetStage((ply + 2) \div 2)
       IN /\ mistakes'[stage] = [mistakes[stage] EXCEPT !.total_moves = @ + 1]
          /\ \A st \in Stages \ {stage} : mistakes'[st] = mistakes[st]
  ]_vars

C13_Witness ==
  /\ game_pc = "returned" /\ game_exit = "replayed"
  /\ oracle_profile = "unknown"
  /\ oracle_queries = 30
  /\ SumTotalMoves(mistakes) = 22
  /\ \A st \in Stages :
       mistakes[st] = [EmptyStageResult EXCEPT !.total_moves = mistakes[st].total_moves]


(***************************************************************************)
(* EvaluationOracle: MistakeAnalysisService._evaluate_position over        *)
(* LichessEvaluationService.evaluate_position and the Stockfish engine.    *)
(*                                                                         *)
(* A service instance is configured as __init__ leaves it (lichess_service *)
(* exists exactly when use_lichess_cloud is set), with or without a        *)
(* running engine, and evaluates up to MaxEvaluations positions.  What the *)
(* Lichess API and the engine answer is chosen by the environment.         *)
(***************************************************************************)
Response(kind, value) == [kind |-> kind, value |-> value]

\* what requests.get and response.json() give for one request, lines 51-79
LichessResponses ==
  {Response("cp", v) : v \in {-35, 0, 120}}
    \cup {Response("mate", m) : m \in {-2, 3}}
    \cup {Response(k, 0) : k \in {"no_pvs", "empty_pvs", "pv_without_score", "status_404",
                                  "timeout", "request_error", "other_error"}}

\* evaluate_position, lines 57-97: the returned value and the counter it bumps
LichessEvaluate(response) ==
  CASE response.kind = "cp" -> [result |-> Some(response.value), counter |-> "hits"]
    [] response.kind = "mate" ->
         [result |-> Some(IF response.value > 0 THEN 10000 ELSE -10000), counter |-> "hits"]
    [] response.kind \in {"timeout", "request_error", "other_error"} ->
         [result |-> None, counter |-> "errors"]
    [] OTHER -> [result |-> None, counter |-> "misses"]

\* api_calls counted after the request instead of before it: a request that
\* raises is not counted as a call
CountCallAfterRequest(st, counter) ==
  [st EXCEPT !.api_calls = IF counter = "errors" THEN @ ELSE @ + 1, ![counter] = @ + 1]

\* lines 43 and 67 / 77 / 82 / 87 / 91 / 95
CountCall(st, counter) ==
  [st EXCEPT !.api_calls = @ + 1, ![counter] = @ + 1]

\* what engine.analyse gives, lines 157-176
EngineResponses ==
  {Response("cp", v) : v \in {-80, 0, 45}}
    \cup {Response("mate", m) : m \in {-1, 4}}
    \cup {Response("no_score", 0), Response("raises", 0)}

\* lines 176-184; score.relative.score(mate_score=10000) of a mate in n
EngineEvaluate(response) ==
  CASE response.kind = "cp" -> Some(response.value)
    [] response.kind = "mate" ->
         Some(IF response.value > 0 THEN 10000 - response.value
                                    ELSE -10000 - response.value)
    [] OTHER -> None

\* lines 157-174: the limit handed to engine.analyse
EngineLimit(nodes, lichess_first) ==
  IF nodes > 0 THEN "nodes" ELSE IF lichess_first THEN "time" ELSE "depth"

\* line 143
CacheEnabled == use_lichess_cloud /\ lichess_service # None

CacheAnsweredTruthy(lichess_eval) == lichess_eval # None /\ lichess_eval[1] # 0

\* line 147
CacheAnswered(lichess_eval) == lichess_eval # None

\* one query of a call: the service asked, the limit, what came back, the
\* value made of it
Query(query, limit, response, answer) ==
  [query |-> query, limit |-> limit, response |-> response, answer |-> answer]

OracleInit ==
  /\ oracle_pc = "call"
  /\ use_lichess_cloud \in BOOLEAN
  /\ lichess_service = (IF use_lichess_cloud THEN Some("lichess") ELSE None)
  /\ engine \in {None, Some("engine")}
  /\ engine_nodes \in {0, 50000}
  /\ stats = EmptyStats
  /\ oracle_trace = <<>> /\ oracle_result = None /\ evaluations = 0
  /\ run_pc = "idle" /\ enabled = TRUE /\ engine_proc = "none"
  /\ username = "Player" /\ games_seen = <<>> /\ results_seen = <<>>
  /\ aggregated = EmptyAggregation /\ run_exc = None /\ swallowed_exc = None
  /\ games_replayed = 0 /\ oracle_queries = 0 /\ callback_calls = 0
  /\ terminal_calls = <<>> /\ callback_args = <<>> /\ first_run = None
  /\ SamplerIdle /\ SelectionIdle /\ TasksIdle /\ GameIdle /\ ThreadsIdle /\ CallIdle

oracleFrame == <<samplerVars, selectionVars, taskVars, runVars, gameVars, threadVars,
                 api_call, use_lichess_cloud, lichess_service, engine_nodes>>

\* lines 143-148: the Lichess Cloud API is asked first
QueryCache ==
  /\ oracle_pc = "call"
  /\ CacheEnabled
  /\ \E response \in LichessResponses :
       LET answer == LichessEvaluate(response)
       IN /\ stats' = CountCall(stats, answer.counter)
          /\ oracle_trace' = Append(oracle_trace,
                                    Query("cache", "none", response, answer.result))
          /\ IF CacheAnswered(answer.result)
               THEN oracle_result' = answer.result /\ oracle_pc' = "returned"
               ELSE oracle_result' = oracle_result /\ oracle_pc' = "fallback"
  /\ UNCHANGED <<oracleFrame, evaluations>>

\* line 143 with the cache switched off
SkipCache ==
  /\ oracle_pc = "call"
  /\ ~CacheEnabled
  /\ oracle_pc' = "fallback"
  /\ UNCHANGED <<oracleFrame, stats, oracle_trace, oracle_result, evaluations>>

\* lines 152-153
NoEngine ==
  /\ oracle_pc = "fallback"
  /\ engine = None
  /\ oracle_result' = None
  /\ oracle_pc' = "returned"
  /\ UNCHANGED <<oracleFrame, stats, oracle_trace, evaluations>>

\* lines 155-184
QueryEngine ==
  /\ oracle_pc = "fallback"
  /\ engine # None
  /\ \E response \in EngineResponses :
       /\ oracle_trace' = Append(oracle_trace,
                                 Query("engine", EngineLimit(engine_nodes, use_lichess_cloud),
                                       response, EngineEvaluate(response)))
       /\ oracle_result' = EngineEvaluate(response)
  /\ oracle_pc' = "returned"
  /\ UNCHANGED <<oracleFrame, stats, evaluations>>

\* the caller evaluates its next position (lines 353 and 365)
NextEvaluation ==
  /\ oracle_pc = "returned"
  /\ evaluations + 1 < MaxEvaluations
  /\ evaluations' = evaluations + 1
  /\ oracle_trace' = <<>>
  /\ oracle_result' = None
  /\ oracle_pc' = "call"
  /\ UNCHANGED <<oracleFrame, stats>>

OracleNext ==
  \/ QueryCache
  \/ SkipCache
  \/ NoEngine
  \/ QueryEngine
  \/ NextEvaluation

SpecOracle == OracleInit /\ [][OracleNext]_vars

\* C14: with the remote cache enabled, every position evaluation queries the
\* cache first and queries the engine only after the cache gave no value
\* (miss, timeout or transport error); after a cache hit the engine is not
\* queried and the hit is the result; when the cache gave no value and the
\* engine is there, the caller gets the engine's answer, not an error.
C14_CacheFirstEngineOnMiss ==
  CacheEnabled =>
    /\ \A k \in DOMAIN oracle_trace :
         oracle_trace[k].query = "engine" =>
           /\ k = 2
           /\ oracle_trace[1].query = "cache"
           /\ oracle_trace[1].answer = None
    /\ oracle_pc = "returned" =>
         /\ Len(oracle_trace) >= 1
         /\ oracle_trace[1].query = "cache"
         /\ oracle_trace[1].answer # None =>
              Len(oracle_trace) = 1 /\ oracle_result = oracle_trace[1].answer
         /\ (oracle_trace[1].answer = None /\ engine # None) =>
              /\ Len(oracle_trace) = 2
              /\ oracle_trace[2].query = "engine"
              /\ oracle_result = oracle_trace[2].answer

C14_Witness ==
  /\ CacheEnabled /\ oracle_pc = "returned"
  /\ evaluations = 1
  /\ stats = [api_calls |-> 2, hits |-> 1, misses |-> 0, errors |-> 1]
  /\ oracle_trace = <<Query("cache", "none", Response("timeout", 0), None),
                       Query("engine", "nodes", Response("cp", 45), Some(45))>>
  /\ oracle_result = Some(45)


GamesActuallyAnalysed ==
  {k \in DOMAIN games_seen :
     results_seen[k] # None /\ results_seen[k] # Some(EmptyGameResult)}

\* C16: a selected game without move text, or whose parse or replay fails, is
\* skipped without aborting the batch: it adds nothing to the aggregated
\* statistics and is counted neither in analyzed_games nor in the denominator
\* of the per-game averages, while the other selected games are analysed.
C16_SkippedGameNotCounted ==
  (run_pc \in {"returned", "done"} /\ EngineWasStarted /\ swallowed_exc = None) =>
     /\ Len(games_seen) = Len(games_to_analyze)
     /\ aggregated.sample_info.analyzed_games = Cardinality(GamesActuallyAnalysed)
     /\ \A st \in Stages :
          aggregated.stages[st].per_game_den = Cardinality(GamesActuallyAnalysed)


\* C20: in a run with m selected games the progress callback is invoked
\* exactly once after each selected game, in selection order, with (k, m) for
\* the k-th game: the reported values are 1, 2, ..., m and the last call
\* before the run returns is (m, m).
C20_CallbackOncePerSelectedGame ==
  (run_pc \in {"returned", "done"} /\ EngineWasStarted /\ swallowed_exc = None) =>
     callback_args = [k \in 1 .. Len(games_to_analyze) |-> <<k, Len(games_to_analyze)>>]


(***************************************************************************)
(* One call of cleanup_old_tasks or get_task_status on a store the         *)
(* program can have built: every task id is absent, live (created, perhaps *)
(* with a progress report) or terminal (completed or failed at some        *)
(* earlier time), never both, as C3_TaskInExactlyOneMap establishes.       *)
(***************************************************************************)
\* a task id no request was ever given
UnknownTask == 0

\* the instants datetime.now() takes in the model, up to `at`
Instants(at) == {t \in 0 .. at : t % TickSeconds = 0}

\* the live records create_task and update_task_progress leave
LiveRecords ==
  {CreateTaskMap(<<>>, 1, total)[1] : total \in 0 .. MaxItems}
    \cup {UpdateTaskProgressMap(CreateTaskMap(<<>>, 1, total), 1, current, "processing")[1] :
            total \in 0 .. MaxItems, current \in 0 .. MaxItems}

\* the terminal records complete_task and fail_task have left by `at`
TerminalRecords(at) ==
  {StoreCompleted(<<>>, 1, result, t)[1] : result \in TaskResults, t \in Instants(at)}
    \cup {StoreError(<<>>, 1, error, t)[1] : error \in TaskErrors, t \in Instants(at)}

MapsOver(ids, records) == UNION {[D -> records] : D \in SUBSET ids}

StoreCallInit ==
  /\ now \in Instants(MaxClock)
  /\ background_tasks \in MapsOver(TaskIds, LiveRecords)
  /\ task_results \in MapsOver(TaskIds, TerminalRecords(now))
  /\ DOMAIN background_tasks \cap DOMAIN task_results = {}
  /\ api_call = None
  /\ SamplerIdle /\ SelectionIdle /\ RunIdle /\ GameIdle /\ ThreadsIdle /\ OracleIdle

\* what is remembered of a call: its name and argument, the two maps as they
\* were when it took the lock, and the value it returned
CallRecord(op, task_id, returned) ==
  [op |-> op, task_id |-> task_id, live |-> background_tasks, results |-> task_results,
   returned |-> returned]

\* cleanup_old_tasks(), lines 28-41
CallCleanupOldTasks ==
  /\ api_call = None
  /\ task_results' = SweepResults(task_results, now)
  /\ api_call' = Some(CallRecord("cleanup_old_tasks", UnknownTask,
                                 Cardinality(Expired(task_results, now))))
  /\ UNCHANGED <<background_tasks, now, threadVars, samplerVars, selectionVars, runVars,
                 gameVars, oracleVars>>

\* get_task_status(task_id), lines 144-167
CallGetTaskStatus ==
  /\ api_call = None
  /\ \E task_id \in TaskIds \cup {UnknownTask} :
       api_call' = Some(CallRecord("get_task_status", task_id,
                                   GetTaskStatus(background_tasks, task_results, task_id)))
  /\ UNCHANGED <<taskVars, threadVars, samplerVars, selectionVars, runVars,
                 gameVars, oracleVars>>

StoreCallNext ==
  \/ CallCleanupOldTasks
  \/ CallGetTaskStatus

SpecStoreCall == StoreCallInit /\ [][StoreCallNext]_vars

\* C17: cleanup_old_tasks removes exactly the terminal records completed more
\* than 3600 seconds ago: each of them was returned by get_task_status before
\* the sweep and is not found after it; every live task and every terminal
\* record within the retention window is unchanged; the returned count is
\* the number of records removed.
C17_CleanupRemovesExactlyExpired ==
  (api_call # None /\ api_call[1].op = "cleanup_old_tasks") =>
     LET before == api_call[1]
         removed == (DOMAIN before.results) \ (DOMAIN task_results)
     IN /\ removed = {id \in DOMAIN before.results :
                        now - before.results[id].completed_at > 3600}
        /\ \A id \in removed :
             /\ GetTaskStatus(before.live, before.results, id) = Some(before.results[id])
             /\ GetTaskStatus(background_tasks, task_results, id) = None
        /\ background_tasks = before.live
        /\ DOMAIN task_results \subseteq DOMAIN before.results
        /\ \A id \in DOMAIN task_results : task_results[id] = before.results[id]
        /\ before.returned = Cardinality(removed)

C17_Witness ==
  /\ api_call # None /\ api_call[1].op = "cleanup_old_tasks"
  /\ api_call[1].returned = 1
  /\ \E old, kept \in TaskIds :
       /\ old \in DOMAIN api_call[1].results /\ old \notin DOMAIN task_results
       /\ now - api_call[1].results[old].completed_at = 5400
       /\ kept \in DOMAIN task_results
       /\ now - task_results[kept].completed_at = 3600

\* C18: get_task_status(id) returns a processing record, with the progress and
\* an estimate of int((total - current) * 2.5) seconds, exactly when id is in
\* the live map; the stored terminal record when id is only in the results
\* map; not-found exactly when id is in neither; and it changes neither map.
C18_StatusFollowsTheMaps ==
  (api_call # None /\ api_call[1].op = "get_task_status") =>
     LET id == api_call[1].task_id
         returned == api_call[1].returned
     IN /\ background_tasks = api_call[1].live
        /\ task_results = api_call[1].results
        /\ id \in DOMAIN background_tasks =>
             LET progress == background_tasks[id].progress
                 remaining == progress.total - progress.current
             IN returned = Some([status |-> "processing", progress |-> progress,
                                 estimated_remaining |->
                                   IF remaining >= 0 THEN (5 * remaining) \div 2
                                   ELSE 0 - ((5 * (0 - remaining)) \div 2)])
        /\ (id \notin DOMAIN background_tasks /\ id \in DOMAIN task_results) =>
             /\ returned = Some(task_results[id])
             /\ returned[1].status \in {"completed", "error"}
        /\ (returned = None) <=>
             (id \notin DOMAIN background_tasks /\ id \notin DOMAIN task_results)
        /\ (returned # None /\ returned[1].status = "processing") <=>
             (id \in DOMAIN background_tasks)

C18_Witness ==
  /\ api_call # None /\ api_call[1].op = "get_task_status"
  /\ api_call[1].task_id = 1
  /\ api_call[1].returned =
       Some([status |-> "processing",
             progress |-> [current |-> 1, total |-> 2, percentage |-> 50],
             estimated_remaining |-> 2])
  /\ 2 \in DOMAIN task_results /\ task_results[2].status = "error"


(***************************************************************************)
(* Progress of one task: create_task(TheTask, total_items) and one call of *)
(* update_task_progress, on the created task or on an id that is not live *)
(* (before the task is created, or another id).                            *)
(***************************************************************************)
ProgressInit ==
  /\ TasksIdle /\ CallIdle
  /\ SamplerIdle /\ SelectionIdle /\ RunIdle /\ GameIdle /\ ThreadsIdle /\ OracleIdle

\* create_task(task_id, total_items), lines 53-64
CallCreateTask ==
  /\ api_call = None
  /\ background_tasks = <<>>
  /\ \E total_items \in 0 .. MaxTotalItems :
       background_tasks' = CreateTaskMap(background_tasks, TheTask, total_items)
  /\ UNCHANGED <<task_results, now, threadVars, samplerVars, selectionVars, runVars,
                 gameVars, oracleVars, api_call>>

\* update_task_progress(task_id, current), lines 76-85
CallUpdateTaskProgress ==
  /\ api_call = None
  /\ \E task_id \in TaskIds, current \in 0 .. MaxReported :
       /\ background_tasks' =
            UpdateTaskProgressMap(background_tasks, task_id, current, "processing")
       /\ api_call' = Some([op |-> "update_task_progress", task_id |-> task_id,
                            current |-> current, live |-> background_tasks,
                            results |-> task_results])
  /\ UNCHANGED <<task_results, now, threadVars, samplerVars, selectionVars, runVars,
                 gameVars, oracleVars>>

ProgressNext ==
  \/ CallCreateTask
  \/ CallUpdateTaskProgress

SpecProgress == ProgressInit /\ [][ProgressNext]_vars

\* a task as create_task leaves it: processing, nothing done
NewlyCreated(record) ==
  /\ record.status = "processing"
  /\ record.progress.current = 0
  /\ record.progress.percentage = 0

\* what a progress report leaves, but for the percentage of a live task
ReportApplied(percentage_ok(_, _, _)) ==
  /\ api_call = None => \A id \in DOMAIN background_tasks : NewlyCreated(background_tasks[id])
  /\ api_call # None =>
       LET id == api_call[1].task_id
           before == api_call[1].live
       IN /\ task_results = api_call[1].results
          /\ id \notin DOMAIN before => background_tasks = before
          /\ id \in DOMAIN before =>
               /\ DOMAIN background_tasks = DOMAIN before
               /\ \A other \in DOMAIN before \ {id} : background_tasks[other] = before[other]
               /\ background_tasks[id].status = "processing"
               /\ background_tasks[id].progress.current = api_call[1].current
               /\ background_tasks[id].progress.total = before[id].progress.total
               /\ percentage_ok(background_tasks[id].progress.percentage,
                                api_call[1].current, before[id].progress.total)

FloorPercentage(percentage, current, total) ==
  percentage = (IF total = 0 THEN 0 ELSE (current * 100) \div total)

TruncatedFloatPercentage(percentage, current, total) ==
  IF total = 0 THEN percentage = 0
  ELSE LET floor == (current * 100) \div total
       IN /\ percentage \in {floor - 1, floor}
          /\ percentage = floor - 1 => (current * 100) % total = 0
          /\ (current = 5 /\ total = 10) => percentage = 50
          /\ (current = 29 /\ total = 50) => percentage = 57

\* C19 as stated: a newly created task is processing with current = 0 and
\* percentage = 0; after a progress report of current on a live task with
\* total items total, its percentage is floor(current * 100 / total) (0 when
\* total is 0); a report for an id that is not live changes nothing.
C19_PercentageIsFloor == ReportApplied(FloorPercentage)

\* C19, amended: as above, but the percentage is int(current / total * 100)
\* in floating point: it is floor(current * 100 / total) or, only when
\* current * 100 / total is a whole number, one less; 50 after 5 of 10,
\* 57 after 29 of 50.
C19_PercentageIsTruncatedFloat == ReportApplied(TruncatedFloatPercentage)

C19_Witness ==
  /\ api_call # None
  /\ api_call[1].task_id = TheTask /\ api_call[1].current = 29
  /\ TheTask \in DOMAIN api_call[1].live
  /\ api_call[1].live[TheTask].progress = [current |-> 0, total |-> 50, percentage |-> 0]
  /\ background_tasks[TheTask].progress = [current |-> 29, total |-> 50, percentage |-> 57]

(***************************************************************************)
(* C21.  The weakest stage the worker stores with a completed analysis.    *)
(***************************************************************************)
\* the mistakes get_weakest_stage counts in a stage of the aggregation
StageMistakes(agg, st) ==
  agg.stages[st].inaccuracies + agg.stages[st].mistakes + agg.stages[st].blunders

\* the task's analysis was completed by a service whose analysis is enabled
CompletedAnalysis ==
  /\ enabled
  /\ TheTask \in DOMAIN task_results
  /\ task_results[TheTask].status = "completed"

C21_WitnessNoMistakes ==
  /\ CompletedAnalysis
  /\ task_results[TheTask].data.weakest.reason = "No mistakes detected"
  /\ task_results[TheTask].data.analysis.stages["early"].total_moves > 0


(***************************************************************************)
(* C22.  One engine process per call of aggregate_mistake_analysis.        *)
(***************************************************************************)
\* a step that starts an engine process
EngineStarts == engine_proc # "running" /\ engine_proc' = "running"

\* a step in which positions are evaluated (a game is replayed)
PositionsEvaluated == oracle_queries' > oracle_queries \/ games_replayed' > games_replayed

\* C22: within one run the engine process is started once, before any
\* position is evaluated; every game of the run is evaluated with that same
\* running process (no start per game or per move), between the start and the
\* stop at the end of the run
C22_OneEnginePerRun ==
  [][/\ EngineStarts =>
          /\ engine_proc = "none" /\ run_pc = "spawned"
          /\ oracle_queries = 0 /\ games_replayed = 0
     /\ PositionsEvaluated =>
          /\ engine_proc = "running" /\ engine_proc' = "running"
          /\ engine # None /\ engine' = engine
     /\ run_pc \in {"setup", "loop", "finally"} => engine_proc = "running"]_vars

\* the second game of a second run has been evaluated with the run's process
C22_Witness ==
  /\ first_run # None
  /\ games_replayed = 2
  /\ oracle_queries > 24
  /\ engine_proc = "running"
  /\ engine = Some("engine")


(***************************************************************************)
(* C23.  The sampling the unit tests of _select_moves_to_analyze expect.   *)
(***************************************************************************)
\* C23: with the default configuration a game of at most 30 player moves has
\* all of its moves selected, and a longer game is sampled down to exactly 30
\* moves: the first 10 indices, the last 10 indices and 10 indices from the
\* moves in between
C23_ThirtyMovesPerGame ==
  sampler_pc = "done" =>
    /\ total_player_moves <= 30 =>
         moves_to_analyze = Range(0, total_player_moves)
    /\ total_player_moves > 30 =>
         /\ Cardinality(moves_to_analyze) = 30
         /\ Range(0, 10) \subseteq moves_to_analyze
         /\ Range(total_player_moves - 10, total_player_moves) \subseteq moves_to_analyze
         /\ Cardinality(moves_to_analyze \cap Range(10, total_player_moves - 10)) = 10


(***************************************************************************)
(* C24.  A sampled move whose position is already decided.                 *)
(***************************************************************************)
\* the replay applies a sampled move of the player whose pre-move evaluation
\* is beyond SKIP_EVAL_THRESHOLD
DecidedMoveStep ==
  /\ InReplay
  /\ TurnAt(first_turn, ply + 1) = analysed_color
  /\ player_move_index \in moves_to_analyze
  /\ IsDecided(OracleAnswers(oracle_profile, player_move_index).before)
  /\ ply' = ply + 1

\* C24: a sampled move whose pre-move evaluation is beyond 600 centipawns in
\* magnitude is applied with the one pre-move query only and records no
\* outcome (no severity, no brilliant / neutral / mistake count, no cp_loss,
\* no worst mistake); it counts in total_moves and its sample slot is spent:
\* the player's move index advances and the sampled indices stay as they were
C24_DecidedMoveOnlyCounted ==
  [][DecidedMoveStep =>
       /\ oracle_queries' = oracle_queries + 1
       /\ mistakes' = [mistakes EXCEPT ![GetStage((ply + 2) \div 2)].total_moves = @ + 1]
       /\ player_move_index' = player_move_index + 1
       /\ moves_to_analyze' = moves_to_analyze]_vars

\* a game of 22 player moves, each sampled one beyond 600: 15 queries, no outcome
C24_Witness ==
  /\ game_pc = "returned" /\ game_exit = "replayed"
  /\ oracle_profile = "decided"
  /\ pgn_plies = 44
  /\ Cardinality(moves_to_analyze) = 15
  /\ oracle_queries = 15
  /\ SumTotalMoves(mistakes) = 22
  /\ \A st \in Stages :
       /\ mistakes[st].cp_losses = <<>> /\ mistakes[st].worst_mistake = None
       /\ mistakes[st].brilliant_moves = 0 /\ mistakes[st].neutral_moves = 0
       /\ mistakes[st].mistake_moves = 0


CacheQueried ==
  /\ Len(oracle_trace') = Len(oracle_trace) + 1
  /\ oracle_trace'[Len(oracle_trace')].query = "cache"

\* the step counts one call, under `counter` and under no other counter
CountedAs(counter) ==
  /\ stats'.api_calls = stats.api_calls + 1
  /\ \A c \in {"hits", "misses", "errors"} :
       stats'[c] = IF c = counter THEN stats[c] + 1 ELSE stats[c]

\* C26: after any sequence of remote-cache evaluations api_calls = hits +
\* misses + errors; each call increments exactly one of the three: a score or
\* a mate is a hit, an answer without an evaluation or a non-200 status a
\* miss, a timeout or transport exception an error; a value is returned only
\* for a hit, a mate as +10000 or -10000 by its sign
C26_EveryCallCountedOnce ==
  [][/\ stats'.api_calls = stats'.hits + stats'.misses + stats'.errors
     /\ ~CacheQueried => stats' = stats
     /\ CacheQueried =>
          LET q == oracle_trace'[Len(oracle_trace')]
          IN CASE q.response.kind = "cp" ->
                    CountedAs("hits") /\ q.answer = Some(q.response.value)
               [] q.response.kind = "mate" ->
                    /\ CountedAs("hits")
                    /\ q.answer = Some(IF q.response.value > 0 THEN 10000 ELSE -10000)
               [] q.response.kind \in {"no_pvs", "empty_pvs", "pv_without_score",
                                       "status_404"} ->
                    CountedAs("misses") /\ q.answer = None
               [] q.response.kind \in {"timeout", "request_error", "other_error"} ->
                    CountedAs("errors") /\ q.answer = None
               [] OTHER -> FALSE]_vars

\* three calls, one of each kind, the last a mate for the opponent
C26_Witness ==
  /\ stats = [api_calls |-> 3, hits |-> 1, misses |-> 1, errors |-> 1]
  /\ oracle_pc = "returned"
  /\ oracle_trace = <<Query("cache", "none", Response("mate", -2), Some(-10000))>>
  /\ oracle_result = Some(-10000)


(***************************************************************************)
(* The oracle work of one run: the loop of aggregate_mistake_analysis      *)
(* (lines 503-512 and 521-556) calling analyze_game_mistakes for each      *)
(* selected game, the replay of each game being the actions of SpecGame.   *)
(* oracle_queries counts the calls of _evaluate_position of the game in    *)
(* hand, evaluations those of the games finished before it.  The merging   *)
(* of a game's result (lines 558-616) evaluates no position and is left to *)
(* SpecRun.                                                                *)
(***************************************************************************)
\* len(games_data) of the runs
WorkTotals == {2, MaxTotalGames}

\* the half-moves of the games of a run
WorkPlies == {0, MaxPlies}

\* how the oracle answers in a game: every position open, or every one decided
WorkProfiles == {"steady", "decided"}

WorkInit ==
  /\ total_games \in WorkTotals
  /\ games_to_analyze = GamesToAnalyze(total_games)
  /\ analyzed_games = Len(games_to_analyze)
  /\ selection_pc = "done"
  /\ run_pc = "loop" /\ enabled = TRUE
  /\ engine = Some("engine") /\ engine_proc = "running"
  /\ username = "Player" /\ games_seen = <<>> /\ results_seen = <<>>
  /\ aggregated = EmptyAggregation /\ run_exc = None /\ swallowed_exc = None
  /\ games_replayed = 0 /\ oracle_queries = 0 /\ callback_calls = 0
  /\ terminal_calls = <<>> /\ callback_args = <<>> /\ first_run = None
  /\ SamplerIdle /\ TasksIdle /\ GameIdle /\ ThreadsIdle
  /\ OracleIdle /\ CallIdle

\* lines 521-556: the loop takes its next game and calls analyze_game_mistakes
AnalyzeNextGame ==
  /\ run_pc = "loop"
  /\ game_pc \in {"idle", "returned"}
  /\ games_replayed < Len(games_to_analyze)
  /\ games_replayed' = games_replayed + 1
  /\ evaluations' = evaluations + oracle_queries
  /\ oracle_queries' = 0
  /\ game_pc' = "call"
  /\ pgn_plies' \in WorkPlies
  /\ oracle_profile' \in WorkProfiles
  /\ analysed_color' \in Colors
  /\ first_turn' = "white"
  /\ ply' = 0 /\ player_move_index' = 0
  /\ mistakes' = EmptyGameResult /\ game_exit' = "none"
  /\ total_player_moves' = 0 /\ moves_to_analyze' = {}
  /\ UNCHANGED <<selectionVars, taskVars, threadVars, api_call, sampler_pc, run_pc, enabled,
                 engine, engine_proc, username, games_seen, results_seen, aggregated,
                 run_exc, swallowed_exc, callback_calls, terminal_calls, callback_args,
                 first_run, oracle_pc, use_lichess_cloud, lichess_service, engine_nodes,
                 stats, oracle_trace, oracle_result>>

WorkNext ==
  \/ AnalyzeNextGame
  \/ ParseFindsNoGame
  \/ FirstPass
  \/ OpponentMove
  \/ PlayerMoveNotSelected
  \/ PlayerMoveSkipped
  \/ PlayerMoveEvaluated
  \/ ReplayDone
  \/ AnalysisRaises

SpecWork == WorkInit /\ [][WorkNext]_vars

\* the sampled moves of the game in hand that the replay has passed
SampledMovesPassed == {i \in moves_to_analyze : i < player_move_index}

MergeTotals == {1, 2}

\* the half-moves of the games of a run
MergePlies == {0, MaxPlies}

\* how the oracle answers in a game
MergeProfiles == {"blundering", "mixed", "boundaries"}

MergeInit ==
  /\ total_games \in MergeTotals
  /\ games_to_analyze = GamesToAnalyze(total_games)
  /\ analyzed_games = Len(games_to_analyze)
  /\ selection_pc = "done"
  /\ run_pc = "loop" /\ enabled = TRUE
  /\ engine = Some("engine") /\ engine_proc = "running"
  /\ username = "Player" /\ games_seen = <<>> /\ results_seen = <<>>
  /\ aggregated = InitialAggregation(total_games, games_to_analyze)
  /\ run_exc = None /\ swallowed_exc = None
  /\ games_replayed = 0 /\ oracle_queries = 0 /\ callback_calls = 0
  /\ terminal_calls = <<>> /\ callback_args = <<>> /\ first_run = None
  /\ SamplerIdle /\ TasksIdle /\ GameIdle /\ ThreadsIdle
  /\ OracleIdle /\ CallIdle

\* lines 521-548: the loop resolves the player's colour in its next game and
\* calls analyze_game_mistakes
CallAnalyzeGame ==
  /\ run_pc = "loop"
  /\ game_pc = "idle"
  /\ Len(games_seen) < Len(games_to_analyze)
  /\ games_replayed' = games_replayed + 1
  /\ game_pc' = "call"
  /\ pgn_plies' \in MergePlies
  /\ oracle_profile' \in MergeProfiles
  /\ analysed_color' \in Colors
  /\ first_turn' = "white"
  /\ ply' = 0 /\ player_move_index' = 0
  /\ mistakes' = EmptyGameResult /\ game_exit' = "none"
  /\ total_player_moves' = 0 /\ moves_to_analyze' = {}
  /\ UNCHANGED <<selectionVars, taskVars, threadVars, api_call, sampler_pc, run_pc, enabled,
                 engine, engine_proc, username, games_seen, results_seen, aggregated,
                 run_exc, swallowed_exc, oracle_queries, callback_calls, terminal_calls,
                 callback_args, first_run, oracleVars>>

\* lines 550-616: the game's result is merged into the aggregation; the game
\* record is one in which the player has the colour the game was analysed for
MergeResult ==
  /\ run_pc = "loop"
  /\ game_pc = "returned"
  /\ \E game_data \in PlayableGames :
       LET side == PlayerSide(game_data, username)
       IN /\ PlayerColor(game_data, username) = analysed_color
          /\ games_seen' = Append(games_seen, game_data)
          /\ results_seen' = Append(results_seen, Some(mistakes))
          /\ aggregated' = MergeGame(aggregated, mistakes, Len(games_seen), analysed_color,
                                     side.result, side.termination)
  /\ game_pc' = "idle"
  /\ UNCHANGED <<selectionVars, taskVars, threadVars, api_call, samplerVars, run_pc, enabled,
                 engine, engine_proc, username, run_exc, swallowed_exc, games_replayed,
                 oracle_queries, callback_calls, terminal_calls, callback_args, first_run,
                 oracleVars, pgn_plies, first_turn, analysed_color, oracle_profile, ply,
                 player_move_index, mistakes, game_exit>>

MergeNext ==
  \/ CallAnalyzeGame
  \/ ParseFindsNoGame
  \/ FirstPass
  \/ OpponentMove
  \/ PlayerMoveNotSelected
  \/ PlayerMoveSkipped
  \/ PlayerMoveEvaluated
  \/ ReplayDone
  \/ AnalysisRaises
  \/ MergeResult
  \/ LoopDone
  \/ Finally

SpecMerge == MergeInit /\ [][MergeNext]_vars


\* the identities of one stage record, per game or aggregated, with its
\* worst record (worst_mistake, or worst_game)
StageCountersAgree(stage_data, worst) ==
  /\ stage_data.mistake_moves
       = stage_data.inaccuracies + stage_data.mistakes + stage_data.blunders
  /\ stage_data.mistake_moves = Len(stage_data.cp_losses)
  /\ \A k \in DOMAIN stage_data.cp_losses : stage_data.cp_losses[k] >= 50
  /\ stage_data.brilliant_moves + stage_data.neutral_moves + stage_data.mistake_moves
       <= stage_data.total_moves
  /\ (worst # None) <=> (stage_data.cp_losses # <<>>)
  /\ worst # None =>
       /\ \E k \in DOMAIN stage_data.cp_losses : stage_data.cp_losses[k] = worst[1].cp_loss
       /\ \A k \in DOMAIN stage_data.cp_losses : stage_data.cp_losses[k] <= worst[1].cp_loss

\* C28: in every per-game result and in the aggregated result, for each
\* stage, mistake_moves = inaccuracies + mistakes + blunders = the number of
\* recorded cp_losses, every recorded cp_loss is at least 50, brilliant_moves
\* + neutral_moves + mistake_moves <= total_moves, and the worst record is
\* there exactly when a cp_loss is recorded and carries the largest of them
C28_StageCountersAgree ==
  \A st \in Stages :
    /\ StageCountersAgree(mistakes[st], mistakes[st].worst_mistake)
    /\ \A k \in DOMAIN results_seen :
         StageCountersAgree(results_seen[k][1][st], results_seen[k][1][st].worst_mistake)
    /\ StageCountersAgree(aggregated.stages[st], aggregated.stages[st].worst_game)

\* two games merged, both with early mistakes, the larger one in the second
C28_Witness ==
  /\ run_pc = "returned"
  /\ Len(results_seen) = 2
  /\ results_seen[1][1]["early"].cp_losses # <<>>
  /\ results_seen[2][1]["early"].cp_losses # <<>>
  /\ aggregated.stages["early"].worst_game # None
  /\ aggregated.stages["early"].worst_game[1].game_index = 1
  /\ aggregated.stages["early"].worst_game[1].cp_loss
       > results_seen[1][1]["early"].worst_mistake[1].cp_loss
  /\ aggregated.stages["early"].mistake_moves
       > results_seen[2][1]["early"].mistake_moves
  /\ aggregated.stages["middle"].brilliant_moves > 0


(***************************************************************************)
(* The status endpoint against a reporting worker, statement by statement. *)
(* get_task_status (line 157) returns task['progress'] itself, the         *)
(* dictionary update_task_progress writes to, not a copy; the route        *)
(* serialises it (api.py line 414) after _lock was released, while         *)
(* update_task_progress assigns 'current' (line 82) and 'percentage'       *)
(* (line 83) one after the other.  The threads interleave between          *)
(* statements.  last_poll holds what the poller has: the returned status   *)
(* (its progress being the live dictionary) and, once serialised, the      *)
(* progress values jsonify read.                                           *)
(***************************************************************************)
SnapshotInit ==
  /\ \E total_items \in 1 .. (MaxItems + 1) :
       background_tasks = CreateTaskMap(<<>>, TheTask, total_items)
  /\ task_results = <<>> /\ now = 0
  /\ lock = "free"
  /\ worker_pc = [id \in {TheTask} |-> "running"]
  /\ worker_idx = [id \in {TheTask} |-> 0]
  /\ last_poll = None
  /\ swept = {}
  /\ SamplerIdle /\ SelectionIdle /\ RunIdle /\ GameIdle
  /\ OracleIdle /\ CallIdle

snapshotFrame == <<task_results, now, swept, samplerVars, selectionVars, runVars, gameVars,
                   oracleVars, api_call>>

\* progress_callback calls update_task_progress(task_id, idx + 1): lines 76-80,
\* the lock is taken and the task found
UpdateEnters ==
  /\ LockAvailable(lock)
  /\ worker_pc[TheTask] = "running"
  /\ \E current \in (worker_idx[TheTask] + 1) .. background_tasks[TheTask].progress.total :
       worker_idx' = [worker_idx EXCEPT ![TheTask] = current]
  /\ worker_pc' = [worker_pc EXCEPT ![TheTask] = "entered"]
  /\ lock' = "held"
  /\ UNCHANGED <<background_tasks, last_poll, snapshotFrame>>

\* line 82: task['progress']['current'] = current
UpdateWritesCurrent ==
  /\ worker_pc[TheTask] = "entered"
  /\ background_tasks' =
       [background_tasks EXCEPT ![TheTask].progress.current = worker_idx[TheTask]]
  /\ worker_pc' = [worker_pc EXCEPT ![TheTask] = "current_written"]
  /\ UNCHANGED <<lock, worker_idx, last_poll, snapshotFrame>>

\* line 83: task['progress']['percentage'] = percentage
UpdateWritesPercentage ==
  /\ worker_pc[TheTask] = "current_written"
  /\ background_tasks' =
       [background_tasks EXCEPT ![TheTask].progress.percentage =
          Percentage(worker_idx[TheTask], background_tasks[TheTask].progress.total)]
  /\ worker_pc' = [worker_pc EXCEPT ![TheTask] = "percentage_written"]
  /\ UNCHANGED <<lock, worker_idx, last_poll, snapshotFrame>>

\* lines 84-85 and the end of the with block
UpdateLeaves ==
  /\ worker_pc[TheTask] = "percentage_written"
  /\ background_tasks' = [background_tasks EXCEPT ![TheTask].status = "processing"]
  /\ worker_pc' = [worker_pc EXCEPT ![TheTask] = "running"]
  /\ lock' = "free"
  /\ UNCHANGED <<worker_idx, last_poll, snapshotFrame>>

\* get_task_status, lines 144-160, for the live task: the returned dictionary
\* holds the live progress dictionary
PollerGetsStatus ==
  /\ LockAvailable(lock)
  /\ IF last_poll = None THEN TRUE ELSE last_poll[1].serialised # None
  /\ last_poll' =
       Some([task_id |-> TheTask,
             estimated_remaining |->
               EstimatedSeconds(background_tasks[TheTask].progress.total
                                  - background_tasks[TheTask].progress.current),
             serialised |-> None])
  /\ UNCHANGED <<background_tasks, lock, worker_pc, worker_idx, snapshotFrame>>

\* api.py line 414: jsonify(status) reads the progress dictionary as it is now
PollerSerialises ==
  /\ last_poll # None
  /\ last_poll[1].serialised = None
  /\ last_poll' =
       Some([last_poll[1] EXCEPT !.serialised = Some(background_tasks[TheTask].progress)])
  /\ UNCHANGED <<background_tasks, lock, worker_pc, worker_idx, snapshotFrame>>

SnapshotNext ==
  \/ UpdateEnters
  \/ UpdateWritesCurrent
  \/ UpdateWritesPercentage
  \/ UpdateLeaves
  \/ PollerGetsStatus
  \/ PollerSerialises

SpecSnapshot == SnapshotInit /\ [][SnapshotNext]_vars

\* C29: the progress record a poller got from get_task_status for a live
\* task is a consistent snapshot: when the poller serialises it, its
\* percentage is floor(current * 100 / total) for the current and total of
\* the same record, also when the worker reports progress meanwhile
C29_PolledProgressConsistent ==
  (last_poll # None /\ last_poll[1].serialised # None) =>
     LET progress == last_poll[1].serialised[1]
     IN progress.percentage = (progress.current * 100) \div progress.total


(***************************************************************************)
(* The background flow for game lists of every length: analyze_detailed    *)
(* registers the task (api.py lines 290-312), the worker's run selects its *)
(* games (lines 503-512) and reports each of them (api.py lines 33-35).    *)
(* Every game has a PGN and is analysed, with the engine running.          *)
(***************************************************************************)
SubmitInit ==
  /\ run_pc = "submit"
  /\ enabled = TRUE
  /\ username = "Player"
  /\ total_games \in 1 .. MaxTotalGames
  /\ games_to_analyze = <<>> /\ analyzed_games = 0 /\ selection_pc = "call"
  /\ engine = None /\ engine_proc = "none"
  /\ games_seen = <<>> /\ results_seen = <<>>
  /\ aggregated = EmptyAggregation /\ run_exc = None /\ swallowed_exc = None
  /\ games_replayed = 0 /\ oracle_queries = 0 /\ callback_calls = 0
  /\ terminal_calls = <<>> /\ callback_args = <<>> /\ first_run = None
  /\ TasksIdle /\ SamplerIdle /\ GameIdle /\ ThreadsIdle
  /\ OracleIdle /\ CallIdle

\* lines 521-619 for a game won with White in which no move loses 50
\* centipawns: analysed, merged, reported through the callback
SelectedGameAnalyzed ==
  /\ InLoop
  /\ LET idx == Len(games_seen)
         game_data == GameRecord("white", "win", "resigned")
         game_mistakes == GameResultWith("early", <<>>)
         side == PlayerSide(game_data, username)
     IN /\ games_seen' = Append(games_seen, game_data)
        /\ results_seen' = Append(results_seen, Some(game_mistakes))
        /\ games_replayed' = games_replayed + 1
        /\ oracle_queries' = oracle_queries + QueriesOf(game_mistakes)
        /\ aggregated' = MergeGame(aggregated, game_mistakes, idx,
                                   PlayerColor(game_data, username),
                                   side.result, side.termination)
        /\ callback_calls' = callback_calls + 1
        /\ callback_args' = Append(callback_args, <<idx + 1, Len(games_to_analyze)>>)
        /\ background_tasks' =
             UpdateTaskProgressMap(background_tasks, TheTask, idx + 1, "processing")
  /\ UNCHANGED <<task_results, now, run_pc, enabled, engine, engine_proc, username, run_exc,
                 swallowed_exc, terminal_calls, samplerVars, selectionVars, gameVars,
                 threadVars, first_run, oracleVars, api_call>>

SubmitNext ==
  \/ SubmitTask
  \/ StartEngine
  \/ Setup
  \/ SelectedGameAnalyzed
  \/ LoopDone
  \/ Finally
  \/ WorkerCompletes

SpecSubmit == SubmitInit /\ [][SubmitNext]_vars

\* the run has selected its games and the task is still live
GamesSelected ==
  /\ run_pc \in {"loop", "finally", "returned"}
  /\ TheTask \in DOMAIN background_tasks

\* C30: the total registered for the task at submission is the number of
\* games the run selects, whatever the length of the game list: current
\* never exceeds total and, the last selected game reported, current = total
\* and percentage = 100 before the task completes
C30_RegisteredTotalIsSelectedGames ==
  /\ TheTask \in DOMAIN background_tasks =>
       background_tasks[TheTask].progress.current <= background_tasks[TheTask].progress.total
  /\ GamesSelected =>
       /\ background_tasks[TheTask].progress.total = Len(games_to_analyze)
       /\ callback_calls = Len(games_to_analyze) =>
            /\ background_tasks[TheTask].progress.current
                 = background_tasks[TheTask].progress.total
            /\ background_tasks[TheTask].progress.percentage = 100


=============================================================================
